---- MODULE Spec2Model ----
(***************************************************************************)
(* Model of the IMAP reconciliation and bulk-cleanup subsystem of          *)
(* src/services/gmailService.js (fetchGmailEmails, deleteGmailEmails) and  *)
(* of the DELETE /cleanup route that totals the tally.                     *)
(*                                                                         *)
(* The IMAP library, the mail parser and the record store are the          *)
(* environment: every event they can deliver (ready, error, end, a command *)
(* callback with or without an error, a parser callback, a store answer)   *)
(* is an action, guarded only by what the protocol allows (a callback      *)
(* answers an outstanding command, nothing arrives after the session       *)
(* ended). Each action is one handler of the code, run to completion.      *)
(***************************************************************************)
EXTENDS Integers, Sequences, FiniteSets, TLC

\* ------------------------------------------------------------------ bounds
MaxInbox == 2
MaxLimit == 2
MaxCats == 2

Owners == {"u1", "u2"}
\* the authenticated owner whose account the invocations use; the other owners
\* appear through the records they hold in the store
Account == "u1"
MsgIds == {"m1", "m2"}
Invocations == {1}

\* --------------------------------------------------------------- variables
VARIABLES
  inbox,    \* the messages of the account's INBOX, by arrival
  seen,     \* the positions of inbox that carry the \Seen flag
  store,    \* the Email collection: records of every owner
  fetch,    \* fetchGmailEmails: one record per invocation slot
  del,      \* deleteGmailEmails and the cleanup route
  web       \* the email, agent and config routes: request, response, mail configuration

vars == <<inbox, seen, store, fetch, del, web>>

\* ----------------------------------------------------------------- helpers
Max(a, b) == IF a >= b THEN a ELSE b
Min(a, b) == IF a <= b THEN a ELSE b

RECURSIVE SeqsUpTo(_, _)
SeqsUpTo(S, n) ==
  IF n = 0 THEN {<<>>}
  ELSE LET shorter == SeqsUpTo(S, n - 1)
       IN shorter \cup {Append(s, x) : s \in {t \in shorter : Len(t) = n - 1}, x \in S}

Range(s) == {s[k] : k \in DOMAIN s}

\* Array.prototype.slice(start) of a sequence: a negative start counts from the
\* end, and -0 is 0.
JsSlice(s, start) ==
  LET from == IF start < 0 THEN Max(Len(s) + start, 0) ELSE Min(start, Len(s))
  IN SubSeq(s, from + 1, Len(s))

\* results.slice(-limit)
EmailsToFetch(results, limit) == JsSlice(results, 0 - limit)

\* imap.search on the open INBOX: the sequence numbers of the matches, ascending
SearchResults(box) == [k \in 1..Len(box) |-> k]

\* imap.search(searchCriteria): UNSEEN leaves out the messages flagged \Seen
Search(box, seenSet, criteria) ==
  LET Match(k) == criteria # <<"UNSEEN">> \/ k \notin seenSet
  IN SelectSeq(SearchResults(box), Match)

\* the default parameter searchCriteria = ['UNSEEN'] of fetchGmailEmails
FetchCriteria(supplied) == IF supplied = "none" THEN <<"UNSEEN">> ELSE supplied

\* (variant: the route hands the criteria of the request on as they are)
RouteCriteriaAsIs(supplied) == supplied

\* const criteria = searchCriteria || ['ALL'] of the POST /fetch route
RouteCriteria(supplied) == IF supplied = "none" THEN <<"ALL">> ELSE supplied

\* the searchCriteria a request or a direct call may carry
Supplied == {"none", <<"UNSEEN">>, <<"ALL">>}

\* (variant: the bodies are fetched with markSeen true)
FetchOptionsMarkSeen == [bodies |-> "", markSeen |-> TRUE]

\* the options of imap.fetch
FetchOptions == [bodies |-> "", markSeen |-> FALSE]

\* Email.findOne({ userId, messageId })
FindOne(st, u, m) == {r \in st : r.userId = u /\ r.messageId = m}

\* (variant: the collection has no unique index)
UniqueIndexMissing(st, m) == FALSE

\* the unique index on messageId: a save is refused when any record holds the id
UniqueViolation(st, m) == \E r \in st : r.messageId = m

\* the _id the store gives the next inserted record
NextId(st) == 1 + Cardinality(st)

\* new Email({ userId, ..., messageId, status: 'pending' })
NewEmail(st, u, m) ==
  [id |-> NextId(st), userId |-> u, messageId |-> m, status |-> "pending"]

\* ------------------------------------------------------- fetchGmailEmails
\* the loop variable email of the route while no document is being processed
NoDoc == [id |-> 0, userId |-> "none", messageId |-> "none", status |-> "none"]

\* the result of processEmailWithAI while none is at hand
NoAI == [scenario |-> [mcp |-> "none", analysis |-> FALSE, reply |-> FALSE],
         threw |-> FALSE,
         sentiment |-> "none", category |-> "none", reply |-> "none"]

IdleFetch ==
  [st |-> "idle", err |-> "none", limit |-> 0, conn |-> "none",
   cmd |-> "none", timers |-> {}, fetchCompleted |-> FALSE, endCalls |-> 0,
   emailsToFetch |-> <<>>, emitted |-> 0, stage |-> <<>>, emails |-> <<>>,
   processedCount |-> 0, result |-> <<>>, pre |-> {}, created |-> {},
   prior |-> "none", supplied |-> "none", criteria |-> <<>>,
   route |-> "none", autoReply |-> FALSE, cursor |-> 0, doc |-> NoDoc,
   analysed |-> {}, repliedTo |-> {}, modified |-> {}, sent |-> {},
   ai |-> NoAI]

Settled(f) == f.st \in {"resolved", "rejected"}

InFlight(f) == {k \in DOMAIN f.stage : f.stage[k] \in {"parsing", "finding", "saving"}}

\* resolve(value) and reject(error) of the promise: only the first call settles it
Resolve(f, value) ==
  IF f.st = "pending" THEN [f EXCEPT !.st = "resolved", !.result = value] ELSE f

Reject(f, e) ==
  IF f.st = "pending" THEN [f EXCEPT !.st = "rejected", !.err = e] ELSE f

\* imap.end()
ImapEndCall(f) == [f EXCEPT !.endCalls = @ + 1]

ClearTimeout(f, t) == [f EXCEPT !.timers = @ \ {t}]

\* A command handed to the session. The library queues commands in order and
\* imap.end() queues LOGOUT: a command issued after imap.end() was called is
\* behind LOGOUT and is never answered.
Issue(f, c) == IF f.endCalls > 0 THEN [f EXCEPT !.cmd = "none"] ELSE [f EXCEPT !.cmd = c]

\* history: how the invocation before this one, on the same mailbox, went. It is
\* "clean" when it resolved, had the limit l and every message it requested
\* was stored or skipped as a duplicate, "faulty" when it resolved with the
\* limit l and a message of its batch failed to parse or to be stored.
PriorOf(f, l) ==
  IF f.st = "resolved" /\ f.limit = l
  THEN IF \A k \in DOMAIN f.stage : f.stage[k] \in {"dup", "saved"}
       THEN "clean" ELSE "faulty"
  ELSE "none"

\* The caller invokes fetchGmailEmails: the promise executor arms the operation
\* timer, registers the handlers, arms the connection timer and connects.
FetchStart(i) ==
  LET f == fetch[i] IN
  /\ \/ f.st = "idle"
     \/ f.conn \in {"ended", "closed"} /\ f.timers = {} /\ InFlight(f) = {}
  /\ \E l \in 0..MaxLimit :
       fetch' = [fetch EXCEPT ![i] =
                   [IdleFetch EXCEPT !.st = "pending", !.limit = l,
                                     !.conn = "connecting",
                                     !.criteria = FetchCriteria("none"),
                                     !.timers = {"op", "conn"}, !.pre = store]]
  /\ UNCHANGED <<inbox, seen, store, del, web>>

\* The caller invokes fetchGmailEmails again, with the options of the invocation
\* that has resolved and whose callbacks have all run.
FetchAgain(i) ==
  LET f == fetch[i] IN
  /\ f.st = "resolved"
  /\ f.conn \in {"ended", "closed"} /\ f.timers = {} /\ InFlight(f) = {}
  /\ fetch' = [fetch EXCEPT ![i] =
                 [IdleFetch EXCEPT !.st = "pending", !.limit = f.limit,
                                   !.conn = "connecting",
                                   !.criteria = f.criteria,
                                   !.timers = {"op", "conn"}, !.pre = store,
                                   !.prior = PriorOf(f, f.limit)]]
  /\ UNCHANGED <<inbox, seen, store, del, web>>

\* imap.once('ready')
FetchReady(i) ==
  LET f == fetch[i] IN
  /\ f.conn = "connecting"
  /\ fetch' = [fetch EXCEPT ![i] =
                 Issue([ClearTimeout(f, "conn") EXCEPT !.conn = "ready"], "openBox")]
  /\ UNCHANGED <<inbox, seen, store, del, web>>

\* a command callback with an error: openBox, search
FetchCmdFail(f, e) ==
  [Reject(ImapEndCall(ClearTimeout(f, "op")), e) EXCEPT !.cmd = "none"]

FetchOpenBoxErr(i) ==
  LET f == fetch[i] IN
  /\ f.conn = "ready" /\ f.cmd = "openBox"
  /\ fetch' = [fetch EXCEPT ![i] = FetchCmdFail(f, "openBox")]
  /\ UNCHANGED <<inbox, seen, store, del, web>>

FetchOpenBoxOk(i) ==
  LET f == fetch[i] IN
  /\ f.conn = "ready" /\ f.cmd = "openBox"
  /\ fetch' = [fetch EXCEPT ![i] = Issue(f, "search")]
  /\ UNCHANGED <<inbox, seen, store, del, web>>

FetchSearchErr(i) ==
  LET f == fetch[i] IN
  /\ f.conn = "ready" /\ f.cmd = "search"
  /\ fetch' = [fetch EXCEPT ![i] = FetchCmdFail(f, "search")]
  /\ UNCHANGED <<inbox, seen, store, del, web>>

\* (variant: a body fetch is issued even for an empty result)
SearchDoneAlwaysFetches(f, results) ==
  LET sel == EmailsToFetch(results, f.limit)
  IN Issue([f EXCEPT !.emailsToFetch = sel,
                     !.stage = [k \in 1..Len(sel) |-> "waiting"]], "fetch")

\* the search callback without an error
SearchDone(f, results) ==
  IF Len(results) = 0
  THEN [Resolve(ImapEndCall(ClearTimeout(f, "op")), <<>>) EXCEPT !.cmd = "none"]
  ELSE LET sel == EmailsToFetch(results, f.limit)
       IN Issue([f EXCEPT !.emailsToFetch = sel,
                           !.stage = [k \in 1..Len(sel) |-> "waiting"]], "fetch")

FetchSearchOk(i) ==
  LET f == fetch[i] IN
  /\ f.conn = "ready" /\ f.cmd = "search"
  /\ fetch' = [fetch EXCEPT ![i] = SearchDone(f, Search(inbox, seen, f.criteria))]
  /\ UNCHANGED <<inbox, seen, store, del, web>>

\* fetch.on('message') and msg.on('body'): the next requested message arrives
\* and simpleParser starts on its stream
FetchMessage(i) ==
  LET f == fetch[i] IN
  /\ f.conn = "ready" /\ f.cmd = "fetch" /\ f.emitted < Len(f.emailsToFetch)
  /\ fetch' = [fetch EXCEPT ![i] =
                 [f EXCEPT !.emitted = @ + 1, !.stage[f.emitted + 1] = "parsing"]]
  /\ seen' = IF FetchOptions.markSeen
             THEN seen \cup {f.emailsToFetch[f.emitted + 1]} ELSE seen
  /\ UNCHANGED <<inbox, store, del, web>>

\* (variant: a failure on one message rejects the fetch and closes the session)
ItemFailedRejects(f, k, how) ==
  Reject(ImapEndCall(ClearTimeout([f EXCEPT !.stage[k] = how,
                                            !.processedCount = @ + 1], "op")), "item")

\* the failure branches of the parser callback: console.error, processedCount++
ItemFailed(f, k, how) == [f EXCEPT !.stage[k] = how, !.processedCount = @ + 1]

\* simpleParser calls back with an error
ParseErr(i, k) ==
  LET f == fetch[i] IN
  /\ k \in DOMAIN f.stage /\ f.stage[k] = "parsing"
  /\ fetch' = [fetch EXCEPT ![i] = ItemFailed(f, k, "parseErr")]
  /\ UNCHANGED <<inbox, seen, store, del, web>>

\* simpleParser calls back with the parsed message: Email.findOne is issued
ParseOk(i, k) ==
  LET f == fetch[i] IN
  /\ k \in DOMAIN f.stage /\ f.stage[k] = "parsing"
  /\ fetch' = [fetch EXCEPT ![i] = [f EXCEPT !.stage[k] = "finding"]]
  /\ UNCHANGED <<inbox, seen, store, del, web>>

MessageIdOf(f, k) == inbox[f.emailsToFetch[k]]

\* (variant: a record that already exists is pushed to the list)
AfterFindOneListsExisting(f, k, existing) ==
  IF existing # {}
  THEN [f EXCEPT !.stage[k] = "dup", !.processedCount = @ + 1,
                 !.emails = Append(@, CHOOSE r \in existing : TRUE)]
  ELSE [f EXCEPT !.stage[k] = "saving"]

\* Email.findOne answers: a record exists (skip) or not (newEmail.save is issued)
AfterFindOne(f, k, existing) ==
  IF existing # {}
  THEN [f EXCEPT !.stage[k] = "dup", !.processedCount = @ + 1]
  ELSE [f EXCEPT !.stage[k] = "saving"]

FindOneDone(i, k) ==
  LET f == fetch[i] IN
  /\ k \in DOMAIN f.stage /\ f.stage[k] = "finding"
  /\ fetch' = [fetch EXCEPT ![i] =
                 AfterFindOne(f, k, FindOne(store, Account, MessageIdOf(f, k)))]
  /\ UNCHANGED <<inbox, seen, store, del, web>>

\* the store fails the query or the write: the catch block
DbError(i, k) ==
  LET f == fetch[i] IN
  /\ k \in DOMAIN f.stage /\ f.stage[k] \in {"finding", "saving"}
  /\ fetch' = [fetch EXCEPT ![i] = ItemFailed(f, k, "dbErr")]
  /\ UNCHANGED <<inbox, seen, store, del, web>>

\* (variant: a store without the unique index on messageId)
SaveNeverRefused(st, m) == FALSE

\* whether the store accepts the insert of a record with this identifier
SaveRefused(st, m) == UniqueViolation(st, m)

\* newEmail.save() answers: the insert, then emails.push(newEmail)
SaveDone(i, k) ==
  LET f == fetch[i]
      m == MessageIdOf(f, k)
      rec == NewEmail(store, Account, m)
  IN
  /\ k \in DOMAIN f.stage /\ f.stage[k] = "saving"
  /\ IF SaveRefused(store, m)
     THEN /\ fetch' = [fetch EXCEPT ![i] = ItemFailed(f, k, "dbErr")]
          /\ store' = store
     ELSE /\ store' = store \cup {rec}
          /\ fetch' = [fetch EXCEPT ![i] =
                         [f EXCEPT !.stage[k] = "saved", !.processedCount = @ + 1,
                                   !.emails = Append(@, rec),
                                   !.created = @ \cup {rec}]]
  /\ UNCHANGED <<inbox, seen, del, web>>

\* fetch.once('error')
FetchError(i) ==
  LET f == fetch[i] IN
  /\ f.conn = "ready" /\ f.cmd = "fetch"
  /\ fetch' = [fetch EXCEPT ![i] =
                 [Reject(ImapEndCall(ClearTimeout(f, "op")), "fetch")
                    EXCEPT !.cmd = "fetchErrored"]]
  /\ UNCHANGED <<inbox, seen, store, del, web>>

\* fetch.once('end'): after the last message, or after the error
FetchEnd(i) ==
  LET f == fetch[i] IN
  /\ f.conn = "ready"
  /\ \/ f.cmd = "fetch" /\ f.emitted = Len(f.emailsToFetch)
     \/ f.cmd = "fetchErrored"
  /\ fetch' = [fetch EXCEPT ![i] =
                 [f EXCEPT !.fetchCompleted = TRUE, !.timers = @ \cup {"delay"},
                           !.cmd = "none"]]
  /\ UNCHANGED <<inbox, seen, store, del, web>>

\* the 2000 ms timer set by the fetch end handler
FetchDelayFire(i) ==
  LET f == fetch[i] IN
  /\ "delay" \in f.timers
  /\ fetch' = [fetch EXCEPT ![i] =
                 ImapEndCall(ClearTimeout(ClearTimeout(f, "delay"), "op"))]
  /\ UNCHANGED <<inbox, seen, store, del, web>>

ErrorCodes == {"ECONNRESET", "ENOTFOUND", "ETIMEDOUT", "AUTHENTICATIONFAILED"}

\* the error the imap error handler rejects with: a message written for the
\* code, or the library's error as it came ("raw"). The promise is returned
\* from the try block without await, so the catch block of the function, which
\* words the authentication failure, never sees a rejection of the promise.
FetchErrorMessage(code) ==
  CASE code = "ECONNRESET" -> "hint:reset"
    [] code = "ENOTFOUND" -> "hint:unreachable"
    [] code = "ETIMEDOUT" -> "hint:timeout"
    [] OTHER -> "raw"

\* imap.once('error'): a connection error ends the session without an end event
FetchImapError(i) ==
  LET f == fetch[i] IN
  /\ f.conn \in {"connecting", "ready"}
  /\ \E code \in ErrorCodes :
       fetch' = [fetch EXCEPT ![i] =
                   [Reject(ClearTimeout(ClearTimeout(f, "conn"), "op"),
                           FetchErrorMessage(code))
                      EXCEPT !.conn = "closed", !.cmd = "none"]]
  /\ UNCHANGED <<inbox, seen, store, del, web>>

\* imap.once('end'): the session is over, no command is answered any more
FetchImapEnd(i) ==
  LET f == fetch[i]
      g == [ClearTimeout(f, "op") EXCEPT !.conn = "ended", !.cmd = "none"]
  IN
  /\ f.conn \in {"connecting", "ready"}
  /\ fetch' = [fetch EXCEPT ![i] =
                 IF f.fetchCompleted THEN Resolve(g, g.emails) ELSE g]
  /\ UNCHANGED <<inbox, seen, store, del, web>>

\* the 15000 ms connection timer
FetchConnTimeout(i) ==
  LET f == fetch[i] IN
  /\ "conn" \in f.timers
  /\ fetch' = [fetch EXCEPT ![i] =
                 Reject(ImapEndCall(ClearTimeout(f, "conn")), "connTimeout")]
  /\ UNCHANGED <<inbox, seen, store, del, web>>

\* the 30000 ms operation timer: armed with the connection timer, it fires after it
FetchOpTimeout(i) ==
  LET f == fetch[i] IN
  /\ "op" \in f.timers /\ "conn" \notin f.timers
  /\ fetch' = [fetch EXCEPT ![i] =
                 Reject(ImapEndCall(ClearTimeout(f, "op")), "opTimeout")]
  /\ UNCHANGED <<inbox, seen, store, del, web>>

\* -------------------------------------------------------------- POST /fetch
\* fetchGmailEmails(userId, { limit, searchCriteria }) called directly
FetchCall(i) ==
  LET f == fetch[i] IN
  /\ f.st = "idle"
  /\ \E l \in {1, MaxLimit}, c \in Supplied :
       fetch' = [fetch EXCEPT ![i] =
                   [IdleFetch EXCEPT !.st = "pending", !.limit = l,
                                     !.conn = "connecting",
                                     !.supplied = c,
                                     !.criteria = FetchCriteria(c),
                                     !.timers = {"op", "conn"}, !.pre = store]]
  /\ UNCHANGED <<inbox, seen, store, del, web>>

\* the route handler up to its await of fetchGmailEmails
RouteFetch(i) ==
  LET f == fetch[i] IN
  /\ f.st = "idle"
  /\ \E l \in {1, MaxLimit}, c \in Supplied :
       fetch' = [fetch EXCEPT ![i] =
                   [IdleFetch EXCEPT !.st = "pending", !.limit = l,
                                     !.conn = "connecting",
                                     !.supplied = c,
                                     !.criteria = FetchCriteria(RouteCriteria(c)),
                                     !.route = "fetch",
                                     !.timers = {"op", "conn"}, !.pre = store]]
  /\ UNCHANGED <<inbox, seen, store, del, web>>

\* (variant: the loop walks every pending record of the account)
RouteListAllPending(f, st) ==
  LET pending == {r \in st : r.userId = Account /\ r.status = "pending"}
  IN [k \in 1..Cardinality(pending) |->
        CHOOSE r \in pending : Cardinality({x \in pending : x.id < r.id}) = k - 1]

\* the array the loop walks: the one fetchGmailEmails resolved with, which the
\* parser callbacks still running keep pushing to
RouteList(f, st) == f.emails

\* email.status = s on a document: the array holds the same object
SetStatus(list, id, s) ==
  [k \in DOMAIN list |-> IF list[k].id = id THEN [list[k] EXCEPT !.status = s] ELSE list[k]]

\* res.json(...) after the loop
RouteRespond(f) == [f EXCEPT !.route = "done", !.doc = NoDoc]

\* for (const email of emails): from position c on, the first pending document
\* gets status processing and its save is awaited
RECURSIVE RouteLoop(_, _, _)
RouteLoop(f, st, c) ==
  IF c > Len(RouteList(f, st)) THEN RouteRespond(f)
  ELSE LET email == RouteList(f, st)[c] IN
       IF email.status = "pending"
       THEN [f EXCEPT !.cursor = c, !.route = "save1",
                      !.doc = [email EXCEPT !.status = "processing"],
                      !.emails = SetStatus(@, email.id, "processing")]
       ELSE RouteLoop(f, st, c + 1)

\* the await of fetchGmailEmails returns or throws
RouteSettled(i) ==
  LET f == fetch[i] IN
  /\ f.route = "fetch" /\ Settled(f)
  /\ fetch' = [fetch EXCEPT ![i] =
                 IF f.st = "rejected" THEN [f EXCEPT !.route = "error"]
                 ELSE [f EXCEPT !.route = "user"]]
  /\ UNCHANGED <<inbox, seen, store, del, web>>

\* User.findById answers: autoReplyEnabled is read and the loop is entered
RouteUser(i) ==
  LET f == fetch[i] IN
  /\ f.route = "user"
  /\ \E enabled \in BOOLEAN :
       fetch' = [fetch EXCEPT ![i] =
                   IF enabled /\ Len(f.emails) > 0
                   THEN RouteLoop([f EXCEPT !.autoReply = enabled], store, 1)
                   ELSE RouteRespond([f EXCEPT !.autoReply = enabled])]
  /\ UNCHANGED <<inbox, seen, store, del, web>>

\* User.findById fails: the outer catch answers 500
RouteUserErr(i) ==
  LET f == fetch[i] IN
  /\ f.route = "user"
  /\ fetch' = [fetch EXCEPT ![i] = [f EXCEPT !.route = "error"]]
  /\ UNCHANGED <<inbox, seen, store, del, web>>

\* email.save() writes the document over the record with its _id
Persist(st, doc) == {r \in st : r.id # doc.id} \cup {doc}

\* an awaited email.save() answers and the handler goes on: to the analysis,
\* to the reply, or to the next document of the loop
RouteSaved(i) ==
  LET f == fetch[i]
      g == [f EXCEPT !.modified = @ \cup {f.doc.id}, !.ai = NoAI]
  IN
  /\ f.route \in {"save1", "save2", "save3", "saveFailed"}
  /\ store' = Persist(store, f.doc)
  /\ fetch' = [fetch EXCEPT ![i] =
                 IF f.route = "save1"
                 THEN [g EXCEPT !.route = "ai", !.analysed = @ \cup {f.doc.id}]
                 ELSE IF f.route = "save2"
                 THEN [g EXCEPT !.route = "reply", !.repliedTo = @ \cup {f.doc.id}]
                 ELSE RouteLoop(g, Persist(store, f.doc), f.cursor + 1)]
  /\ UNCHANGED <<inbox, seen, del, web>>

\* the catch of the loop body: status failed and its save
RouteCatch(f) ==
  [f EXCEPT !.route = "saveFailed", !.doc = [f.doc EXCEPT !.status = "failed"],
            !.emails = SetStatus(@, f.doc.id, "failed")]

\* an awaited email.save() rejects: inside the try the catch takes over, inside
\* the catch the outer catch answers 500
RouteSaveErr(i) ==
  LET f == fetch[i] IN
  /\ f.route \in {"save1", "save2", "save3", "saveFailed"}
  /\ fetch' = [fetch EXCEPT ![i] =
                 IF f.route = "saveFailed" THEN [f EXCEPT !.route = "error", !.ai = NoAI]
                 ELSE [RouteCatch(f) EXCEPT !.ai = NoAI]]
  /\ UNCHANGED <<inbox, seen, store, del, web>>

\* how the collaborators of processEmailWithAI behave on one call: the MCP
\* server answers both requests, or fails on the analysis or on the reply;
\* the direct analysis and the direct reply generation succeed or fail
AIScenarios ==
  {sc \in [mcp : {"ok", "analyzeFails", "replyFails"}, analysis : BOOLEAN, reply : BOOLEAN] :
     sc.mcp = "ok" => (sc.analysis /\ sc.reply)}

\* analyzeEmail: a failure is caught and answered with neutral and general
analyzeEmail(ok) ==
  IF ok THEN [sentiment |-> "model", category |-> "model"]
  ELSE [sentiment |-> "neutral", category |-> "general"]

\* (variant: an MCP failure is passed on to the caller)
processEmailWithAINoFallback(sc) ==
  IF sc.mcp = "ok"
  THEN [scenario |-> sc, threw |-> FALSE, sentiment |-> "mcp", category |-> "mcp",
        reply |-> "mcp"]
  ELSE [scenario |-> sc, threw |-> TRUE, sentiment |-> "none", category |-> "none",
        reply |-> "none"]

\* processEmailWithAI: the MCP server first, on any failure of it the direct
\* analysis and the direct reply generation, whose failure is thrown
processEmailWithAI(sc) ==
  IF sc.mcp = "ok"
  THEN [scenario |-> sc, threw |-> FALSE, sentiment |-> "mcp", category |-> "mcp",
        reply |-> "mcp"]
  ELSE IF sc.reply
       THEN [scenario |-> sc, threw |-> FALSE,
             sentiment |-> analyzeEmail(sc.analysis).sentiment,
             category |-> analyzeEmail(sc.analysis).category, reply |-> "direct"]
       ELSE [scenario |-> sc, threw |-> TRUE, sentiment |-> "none",
             category |-> "none", reply |-> "none"]

\* processEmailWithAI answers: the analysis is set and saved, or it throws
RouteAI(i) ==
  LET f == fetch[i] IN
  /\ f.route = "ai"
  /\ \E sc \in AIScenarios :
       LET out == processEmailWithAI(sc) IN
       fetch' = [fetch EXCEPT ![i] =
                   IF out.threw THEN [RouteCatch(f) EXCEPT !.ai = out]
                   ELSE [f EXCEPT !.route = "save2", !.ai = out]]
  /\ UNCHANGED <<inbox, seen, store, del, web>>

\* sendGmailReply answers: status replied and its save, or it throws
RouteReply(i) ==
  LET f == fetch[i] IN
  /\ f.route = "reply"
  /\ \E ok \in BOOLEAN :
       fetch' = [fetch EXCEPT ![i] =
                   IF ok
                   THEN [f EXCEPT !.route = "save3", !.sent = @ \cup {f.doc.id},
                                  !.doc = [f.doc EXCEPT !.status = "replied"],
                                  !.emails = SetStatus(@, f.doc.id, "replied")]
                   ELSE RouteCatch(f)]
  /\ UNCHANGED <<inbox, seen, store, del, web>>

\* ------------------------------------------------------ deleteGmailEmails
\* A mailbox name is the sequence of its path segments: '[Gmail]/Spam' is
\* <<"[Gmail]", "Spam">>.
categoryMap ==
  [promotional |-> [folders |-> << <<"[Gmail]", "Promotions">>, <<"Promotions">> >>,
                    label |-> "Promotions", searchFrom |-> "none"],
   social      |-> [folders |-> << <<"[Gmail]", "Social">>, <<"Social">> >>,
                    label |-> "Social", searchFrom |-> "none"],
   updates     |-> [folders |-> << <<"[Gmail]", "Updates">>, <<"Updates">> >>,
                    label |-> "Updates", searchFrom |-> "none"],
   purchases   |-> [folders |-> << <<"[Gmail]", "Purchases">>, <<"Purchases">> >>,
                    label |-> "Purchases", searchFrom |-> "none"],
   spam        |-> [folders |-> << <<"[Gmail]", "Spam">>, <<"Spam">>, <<"Junk">> >>,
                    label |-> "null", searchFrom |-> "none"],
   trash       |-> [folders |-> << <<"[Gmail]", "Trash">>, <<"Trash">>, <<"[Gmail]", "Bin">> >>,
                    label |-> "null", searchFrom |-> "none"],
   noreply     |-> [folders |-> << <<"INBOX">> >>,
                    label |-> "null", searchFrom |-> "noreply"]]

\* the category names a request may carry: one of each kind of the table, and
\* a name the table does not know
CategoryNames == {"promotional", "spam", "noreply", "bogus"}

\* the folder trees imap.getBoxes may answer with: top-level names, each with
\* the set of its children
TopNames == {"INBOX", "[Gmail]", "Spam"}
ChildNames == {"Promotions", "Spam"}
Trees ==
  {[t \in T |-> IF t = "[Gmail]" THEN K ELSE {}] : T \in SUBSET TopNames, K \in SUBSET ChildNames}

\* folder trees in which a folder other than [Gmail] has children too
WideTopNames == TopNames \cup {"Archive"}
WideChildNames == {"Spam", "Old"}
WideTrees ==
  {[t \in T |-> IF t = "[Gmail]" THEN K ELSE IF t = "Archive" THEN A ELSE {}] :
     T \in SUBSET WideTopNames, K \in SUBSET ChildNames, A \in SUBSET WideChildNames}

\* results.length of a search answer
MatchCounts == {0, 2, 3, 5}

\* (variant: only the flat name is looked up)
mailboxExistsFlat(boxes, name) == Len(name) = 1 /\ name[1] \in DOMAIN boxes

\* mailboxExists(name) against the boxes of getBoxes
mailboxExists(boxes, name) ==
  IF Len(name) = 1 /\ name[1] \in DOMAIN boxes THEN TRUE
  ELSE IF Len(name) > 1 /\ name[1] = "[Gmail]"
       THEN "[Gmail]" \in DOMAIN boxes /\ name[2] \in boxes["[Gmail]"]
       ELSE FALSE

\* (variant: the first candidate is pushed without the existence check)
FirstUnchecked(boxes, folders, searchFrom) ==
  IF folders = <<>> THEN <<>>
  ELSE << [folder |-> Head(folders), useLabel |-> FALSE, labelName |-> "null",
           searchFrom |-> searchFrom] >>

\* the loop over categoryConfig.folders that pushes the first existing one
RECURSIVE FirstExisting(_, _, _)
FirstExisting(boxes, folders, searchFrom) ==
  IF folders = <<>> THEN <<>>
  ELSE IF mailboxExists(boxes, Head(folders))
       THEN << [folder |-> Head(folders), useLabel |-> FALSE, labelName |-> "null",
                searchFrom |-> searchFrom] >>
       ELSE FirstExisting(boxes, Tail(folders), searchFrom)

\* (variant: the INBOX reference of a label category also carries a sender filter)
InboxWithLabelAndSender(label) ==
  [folder |-> <<"INBOX">>, useLabel |-> TRUE, labelName |-> label, searchFrom |-> "noreply"]

\* { folder: 'INBOX', useLabel: true, labelName: categoryConfig.label }
InboxWithLabel(label) ==
  [folder |-> <<"INBOX">>, useLabel |-> TRUE, labelName |-> label, searchFrom |-> "none"]

\* (variant: the physical folder is pushed before the INBOX label overlay)
FoldersToProcessFolderFirst(cfg, boxes) ==
  IF cfg.label # "null"
  THEN FirstExisting(boxes, cfg.folders, "none") \o <<InboxWithLabel(cfg.label)>>
  ELSE IF cfg.searchFrom # "none"
       THEN FirstExisting(boxes, cfg.folders, cfg.searchFrom)
       ELSE FirstExisting(boxes, cfg.folders, "none")

\* foldersToProcess of processCategory
FoldersToProcess(cfg, boxes) ==
  IF cfg.label # "null"
  THEN <<InboxWithLabel(cfg.label)>> \o FirstExisting(boxes, cfg.folders, "none")
  ELSE IF cfg.searchFrom # "none"
       THEN FirstExisting(boxes, cfg.folders, cfg.searchFrom)
       ELSE FirstExisting(boxes, cfg.folders, "none")

\* (variant: every folder is searched with ALL)
SearchCriteriaAll(ref) == <<"ALL">>

\* searchCriteria of processFolders
SearchCriteria(ref) ==
  IF ref.useLabel /\ ref.labelName # "null" THEN <<"X-GM-LABELS", ref.labelName>>
  ELSE IF ref.searchFrom # "none" THEN <<"FROM", ref.searchFrom>>
       ELSE <<"ALL">>

NoCounts == [c \in {} |-> 0]

\* deletedCounts[category] = n
SetCount(counts, category, n) ==
  [c \in DOMAIN counts \cup {category} |-> IF c = category THEN n ELSE counts[c]]

IdleDelete ==
  [st |-> "idle", err |-> "none", categories |-> <<>>, boxes |-> NoCounts,
   conn |-> "none", cmd |-> "none", outstanding |-> 0, timer |-> FALSE,
   endCalls |-> 0, criteria |-> <<>>, index |-> 0, folders |-> <<>>, folderIndex |-> 0, results |-> 0,
   categoryTotalDeleted |-> <<>>, deletedCounts |-> NoCounts,
   processedCategories |-> 0, result |-> NoCounts,
   matched |-> <<>>, failed |-> FALSE,
   server |-> FALSE, flagged |-> {}, removed |-> <<>>,
   response |-> "none", totalDeleted |-> 0]

\* Object.values(deletedCounts).reduce((sum, count) => sum + count, 0)
RECURSIVE SumValues(_)
SumValues(counts) ==
  IF DOMAIN counts = {} THEN 0
  ELSE LET c == CHOOSE x \in DOMAIN counts : TRUE
       IN counts[c] + SumValues([x \in DOMAIN counts \ {c} |-> counts[x]])

\* DELETE /cleanup after its await: the continuation runs as soon as the promise
\* settles, before any other event is handled
CleanupRespond(d) ==
  IF d.st = "resolved"
  THEN [d EXCEPT !.response = "ok", !.totalDeleted = SumValues(d.result)]
  ELSE [d EXCEPT !.response = "error"]

\* resolve(value) and reject(error) of the promise: only the first call settles it
DelResolve(d, value) ==
  IF d.st = "pending"
  THEN CleanupRespond([d EXCEPT !.st = "resolved", !.result = value]) ELSE d

DelReject(d, e) ==
  IF d.st = "pending"
  THEN CleanupRespond([d EXCEPT !.st = "rejected", !.err = e]) ELSE d

\* A command handed to the session (imap.getBoxes, openBox, search, addFlags,
\* expunge): outstanding counts the commands handed over and not yet called
\* back. A command issued after imap.end() is behind LOGOUT and never answered.
DelIssue(d, c) ==
  IF d.endCalls > 0 THEN [d EXCEPT !.cmd = "none", !.outstanding = @ + 1]
  ELSE [d EXCEPT !.cmd = c, !.outstanding = @ + 1]

\* the library calls the callback of the outstanding command
Answered(d) == [d EXCEPT !.outstanding = @ - 1]

\* the end of processCategory: every category was handled
FinishCategories(d) ==
  [d EXCEPT !.timer = FALSE, !.endCalls = @ + 1, !.cmd = "none",
            !.index = Len(d.categories) + 1]

\* (variant: the category is counted as processed without its entry)
RecordCategoryNoEntry(d, index, n) == [d EXCEPT !.processedCategories = @ + 1]

\* deletedCounts[category] = n; processedCategories++
RecordCategory(d, index, n) ==
  [d EXCEPT !.deletedCounts = SetCount(@, d.categories[index], n),
            !.processedCategories = @ + 1]

\* processCategory(index) and processFolders(folderIndex), run until a command
\* is handed to the session or the categories are exhausted
RECURSIVE ProcessCategory(_, _)
RECURSIVE ProcessFolders(_, _)
ProcessCategory(d, index) ==
  IF index > Len(d.categories) THEN FinishCategories(d)
  ELSE LET category == d.categories[index] IN
       IF category \notin DOMAIN categoryMap
       THEN ProcessCategory(RecordCategory(d, index, 0), index + 1)
       ELSE LET found == FoldersToProcess(categoryMap[category], d.boxes) IN
            IF Len(found) = 0
            THEN ProcessCategory(RecordCategory(d, index, 0), index + 1)
            ELSE DelIssue([d EXCEPT !.index = index, !.folders = found,
                                    !.folderIndex = 1, !.results = 0], "openBox")

ProcessFolders(d, folderIndex) ==
  IF folderIndex > Len(d.folders)
  THEN ProcessCategory(RecordCategory(d, d.index, d.categoryTotalDeleted[d.index]),
                       d.index + 1)
  ELSE DelIssue([d EXCEPT !.folderIndex = folderIndex, !.results = 0], "openBox")

\* (variant: the folder after the next one is opened)
NextFolderSkipsOne(d) == ProcessFolders(d, d.folderIndex + 2)

\* processFolders(folderIndex + 1): the callbacks of the folder return and
\* their searchCriteria goes with them
NextFolder(d) == ProcessFolders([d EXCEPT !.criteria = <<>>], d.folderIndex + 1)

\* history: a protocol step failed; matched is kept for the runs without one
MarkFailed(d) == [d EXCEPT !.failed = TRUE, !.matched = [k \in DOMAIN @ |-> 0]]

\* (variant: a failed step rejects the run and closes the session)
FolderFailedAborts(d) ==
  DelReject([MarkFailed(d) EXCEPT !.timer = FALSE, !.endCalls = @ + 1, !.cmd = "none"],
            "folder")

\* (variant: a failed step still credits the matches of the folder)
FolderFailedCredits(d) ==
  NextFolder(MarkFailed([d EXCEPT !.categoryTotalDeleted[d.index] = @ + d.results]))

\* a failed step of the current folder: logged, then the next folder
FolderFailed(d) == NextFolder(MarkFailed(d))

\* (variant: the expunge callback credits one message per folder)
CreditOne(d) == [d EXCEPT !.categoryTotalDeleted[d.index] = @ + 1]

\* the expunge callback without an error: categoryTotalDeleted += results.length
Credit(d) == [d EXCEPT !.categoryTotalDeleted[d.index] = @ + d.results]

AddAt(f, k, n) == [f EXCEPT ![k] = @ + n]

\* the server side of the open folder, kept in the runs whose server field is
\* set: flagged holds, per folder and per search that flagged them, the number
\* of messages that carry \Deleted and are still in the folder; removed
\* counts, per category of the request, the messages the server removed while
\* the run handled that category
OpenFolder(d) == d.folders[d.folderIndex].folder

FlaggedIn(d, folder) == {g \in d.flagged : g.folder = folder}

RECURSIVE SumFlagged(_)
SumFlagged(gs) ==
  IF gs = {} THEN 0
  ELSE LET g == CHOOSE x \in gs : TRUE IN g.n + SumFlagged(gs \ {g})

\* a search answers with every message of the folder that matches, the ones
\* an earlier search with the same criteria flagged among them
StillMatching(d, n) ==
  d.server =>
  \A g \in FlaggedIn(d, OpenFolder(d)) : g.criteria = d.criteria => n >= g.n

\* imap.addFlags(results, ['\\Deleted']) done: the results carry the flag
AddFlags(d) ==
  IF ~d.server THEN d
  ELSE [d EXCEPT !.flagged =
          {g \in @ : ~(g.folder = OpenFolder(d) /\ g.criteria = d.criteria)}
            \cup {[folder |-> OpenFolder(d), criteria |-> d.criteria, n |-> d.results]}]

\* imap.expunge() done: the server removes every message of the open folder
\* that carries \Deleted, whichever search flagged it
Expunge(d) ==
  IF ~d.server THEN d
  ELSE [d EXCEPT !.removed[d.index] = @ + SumFlagged(FlaggedIn(d, OpenFolder(d))),
                 !.flagged = @ \ FlaggedIn(d, OpenFolder(d))]

\* The caller invokes deleteGmailEmails: the promise executor arms the
\* operation timer, registers the handlers and connects.
DelStart ==
  /\ del.st = "idle"
  /\ \E cats \in SeqsUpTo(CategoryNames, MaxCats) :
       del' = [IdleDelete EXCEPT !.st = "pending", !.categories = cats,
                                 !.conn = "connecting", !.timer = TRUE,
                                 !.categoryTotalDeleted = [k \in 1..Len(cats) |-> 0],
                                 !.server = del.server, !.flagged = del.flagged,
                                 !.removed = [k \in 1..Len(cats) |-> 0],
                                 !.matched = [k \in 1..Len(cats) |-> 0]]
  /\ UNCHANGED <<inbox, seen, store, fetch, web>>

\* imap.once('ready'): imap.getBoxes
DelReady ==
  /\ del.conn = "connecting"
  /\ del' = DelIssue([del EXCEPT !.conn = "ready"], "getBoxes")
  /\ UNCHANGED <<inbox, seen, store, fetch, web>>

DelGetBoxesErr ==
  /\ del.conn = "ready" /\ del.cmd = "getBoxes"
  /\ del' = DelReject(MarkFailed([Answered(del) EXCEPT !.timer = FALSE,
                                                       !.endCalls = @ + 1,
                                                       !.cmd = "none"]), "getBoxes")
  /\ UNCHANGED <<inbox, seen, store, fetch, web>>

DelGetBoxesOk ==
  /\ del.conn = "ready" /\ del.cmd = "getBoxes"
  /\ \E b \in Trees :
       del' = ProcessCategory([Answered(del) EXCEPT !.boxes = b], 1)
  /\ UNCHANGED <<inbox, seen, store, fetch, web>>

\* the getBoxes callback on a server whose tree nests folders under any parent
DelGetBoxesWide ==
  /\ del.conn = "ready" /\ del.cmd = "getBoxes"
  /\ \E b \in WideTrees :
       del' = ProcessCategory([Answered(del) EXCEPT !.boxes = b], 1)
  /\ UNCHANGED <<inbox, seen, store, fetch, web>>

DelOpenBoxErr ==
  /\ del.conn = "ready" /\ del.cmd = "openBox"
  /\ del' = FolderFailed(Answered(del))
  /\ UNCHANGED <<inbox, seen, store, fetch, web>>

\* openBox answers with box.messages.total === 0
DelOpenBoxEmpty ==
  /\ del.conn = "ready" /\ del.cmd = "openBox"
  /\ del' = NextFolder(Answered(del))
  /\ UNCHANGED <<inbox, seen, store, fetch, web>>

DelOpenBoxOk ==
  /\ del.conn = "ready" /\ del.cmd = "openBox"
  /\ del' = DelIssue([Answered(del) EXCEPT
                        !.criteria = SearchCriteria(del.folders[del.folderIndex])],
                     "search")
  /\ UNCHANGED <<inbox, seen, store, fetch, web>>

DelSearchErr ==
  /\ del.conn = "ready" /\ del.cmd = "search"
  /\ del' = FolderFailed(Answered(del))
  /\ UNCHANGED <<inbox, seen, store, fetch, web>>

\* the search callback without an error: no match, or addFlags on the matches
\* (results holds the number of messages the search with criteria returned)
SearchAnswered(d, n) ==
  IF n = 0 THEN NextFolder(d)
  ELSE DelIssue([d EXCEPT !.results = n,
                          !.matched = IF d.failed THEN @ ELSE AddAt(@, d.index, n)],
                "addFlags")

DelSearchOk ==
  /\ del.conn = "ready" /\ del.cmd = "search"
  /\ \E n \in MatchCounts :
       /\ StillMatching(del, n)
       /\ del' = SearchAnswered(Answered(del), n)
  /\ UNCHANGED <<inbox, seen, store, fetch, web>>

DelAddFlagsErr ==
  /\ del.conn = "ready" /\ del.cmd = "addFlags"
  /\ del' = FolderFailed(Answered(del))
  /\ UNCHANGED <<inbox, seen, store, fetch, web>>

DelAddFlagsOk ==
  /\ del.conn = "ready" /\ del.cmd = "addFlags"
  /\ del' = DelIssue(AddFlags(Answered(del)), "expunge")
  /\ UNCHANGED <<inbox, seen, store, fetch, web>>

DelExpungeErr ==
  /\ del.conn = "ready" /\ del.cmd = "expunge"
  /\ del' = FolderFailed(Answered(del))
  /\ UNCHANGED <<inbox, seen, store, fetch, web>>

\* (variant: the records of the account are deleted with the remote messages)
StoreAfterExpungeDeletes(st) == {r \in st : r.userId # Account}

\* the Email collection after the expunge callback: the callback, like all of
\* deleteGmailEmails, calls no method of the Email model
StoreAfterExpunge(st) == st

DelExpungeOk ==
  /\ del.conn = "ready" /\ del.cmd = "expunge"
  /\ del' = NextFolder(Credit(Expunge(Answered(del))))
  /\ store' = StoreAfterExpunge(store)
  /\ UNCHANGED <<inbox, seen, fetch, web>>

\* imap.once('error'): a connection error ends the session without an end event
DelImapError ==
  /\ del.conn \in {"connecting", "ready"}
  /\ del' = DelReject(MarkFailed([del EXCEPT !.timer = FALSE, !.conn = "closed",
                                             !.cmd = "none", !.outstanding = 0,
                                             !.criteria = <<>>]),
                      "raw")
  /\ UNCHANGED <<inbox, seen, store, fetch, web>>

\* imap.once('end')
DelImapEnd ==
  LET d == [del EXCEPT !.timer = FALSE, !.conn = "ended", !.cmd = "none",
                       !.outstanding = 0, !.criteria = <<>>]
  IN
  /\ del.conn \in {"connecting", "ready"}
  /\ del' = IF d.processedCategories = Len(d.categories)
            THEN DelResolve(d, d.deletedCounts) ELSE d
  /\ UNCHANGED <<inbox, seen, store, fetch, web>>

\* the 600000 ms operation timer
DelOpTimeout ==
  /\ del.timer
  /\ del' = DelReject([del EXCEPT !.timer = FALSE, !.endCalls = @ + 1], "opTimeout")
  /\ UNCHANGED <<inbox, seen, store, fetch, web>>

\* ------------------------------------------- email, agent and config routes
\* the enum of the status path of the Email schema
StatusEnum == {"pending", "processing", "replied", "failed", "ignored"}

\* the values a client can put in req.body.status
BodyStatus == {"pending", "ignored", "archived"}

\* the values of req.params.id: the _id of a record, or of none
DocIds == {1, 2, 3}

\* the values of req.body.email and req.body.appPassword; "" is a missing field
BodyEmail == {"", "a@gmail.com"}
BodyPassword == {"", "pw1", "pw2"}

\* user.emailConfig while it is undefined
NoConfig == [provider |-> "none", email |-> "none", password |-> "none"]

\* a mail configuration as POST /config stores it
GmailConfig(e, p) == [provider |-> "gmail", email |-> e, password |-> p]

\* no request is being handled
NoReq == [route |-> "none", user |-> "none", id |-> 0, step |-> "none",
          doc |-> NoDoc, list |-> <<>>, status |-> "none",
          email |-> "none", password |-> "none", verification |-> FALSE]

\* no response has been sent
NoResp == [route |-> "none", user |-> "none", id |-> 0, code |-> 0,
           docs |-> {}, values |-> {}]

IdleWeb ==
  [ req    |-> NoReq,
    resp   |-> NoResp,
    config |-> [u \in Owners |-> NoConfig],
    sent   |-> {} ]

\* res.status(code).json(...): the request is answered
Respond(w, code, docs, values) ==
  [w EXCEPT !.req = NoReq,
            !.resp = [route |-> w.req.route, user |-> w.req.user, id |-> w.req.id,
                      code |-> code, docs |-> docs, values |-> values]]

\* a request enters a handler; req.user.userId is the authenticated owner
Request(r, u, k) == [NoReq EXCEPT !.route = r, !.user = u, !.id = k]

\* (variant: the record is looked up by _id alone)
ByIdAndOwnerAnyOwner(st, k, u) == {r \in st : r.id = k}

\* the filter { _id: req.params.id, userId: req.user.userId }
ByIdAndOwner(st, k, u) == {r \in st : r.id = k /\ r.userId = u}

\* the filter { userId: req.user.userId } with the optional status
ByOwner(st, u, s) == {r \in st : r.userId = u /\ (s = "none" \/ r.status = s)}

\* the documents of a query result, in the order of their _id
RECURSIVE InIdOrder(_)
InIdOrder(rs) ==
  IF rs = {} THEN <<>>
  ELSE LET r == CHOOSE x \in rs : \A y \in rs : x.id <= y.id
       IN <<r>> \o InIdOrder(rs \ {r})

\* GET /
WebList(u) ==
  /\ web.req = NoReq
  /\ \E s \in {"none", "pending"} :
       web' = Respond([web EXCEPT !.req = Request("list", u, 0)], 200,
                      ByOwner(store, u, s), {})
  /\ UNCHANGED <<inbox, seen, store, fetch, del>>

\* GET /:id
WebGet(u, k) ==
  LET w == [web EXCEPT !.req = Request("get", u, k)]
      found == ByIdAndOwner(store, k, u)
  IN
  /\ web.req = NoReq
  /\ web' = IF found = {} THEN Respond(w, 404, {}, {}) ELSE Respond(w, 200, found, {})
  /\ UNCHANGED <<inbox, seen, store, fetch, del>>

\* POST /:id/reply until sendEmail is awaited
WebReply(u, k) ==
  LET w == [web EXCEPT !.req = Request("reply", u, k)]
      found == ByIdAndOwner(store, k, u)
  IN
  /\ web.req = NoReq
  /\ web' = IF found = {} THEN Respond(w, 404, {}, {})
            ELSE [w EXCEPT !.req.step = "send", !.req.doc = CHOOSE r \in found : TRUE]
  /\ UNCHANGED <<inbox, seen, store, fetch, del>>

\* sendEmail answers: it throws without a mail configuration or when the
\* transport fails, else the reply has left and email.save() is awaited
WebReplySend ==
  /\ web.req.route = "reply"
  /\ web.req.step = "send"
  /\ \E ok \in BOOLEAN :
       web' = IF ok /\ web.config[web.req.user] # NoConfig
              THEN [web EXCEPT !.sent = @ \cup {web.req.doc.id},
                               !.req.step = "save",
                               !.req.doc.status = "replied"]
              ELSE Respond(web, 500, {}, {})
  /\ UNCHANGED <<inbox, seen, store, fetch, del>>

\* email.save() of POST /:id/reply answers
WebReplySave ==
  /\ web.req.route = "reply"
  /\ web.req.step = "save"
  /\ \E ok \in BOOLEAN :
       IF ok
       THEN /\ store' = Persist(store, web.req.doc)
            /\ web' = Respond(web, 200, {web.req.doc}, {})
       ELSE /\ store' = store
            /\ web' = Respond(web, 500, {}, {})
  /\ UNCHANGED <<inbox, seen, fetch, del>>

\* PATCH /:id/status: findOneAndUpdate(filter, { status }, { new: true }) runs
\* no validator, the value of the body is stored as it is
WebStatus(u, k) ==
  LET w == [web EXCEPT !.req = Request("status", u, k)]
      found == ByIdAndOwner(store, k, u)
  IN
  /\ web.req = NoReq
  /\ \E s \in BodyStatus :
       IF found = {}
       THEN /\ store' = store
            /\ web' = Respond(w, 404, {}, {})
       ELSE LET doc == [(CHOOSE r \in found : TRUE) EXCEPT !.status = s]
            IN /\ store' = Persist(store, doc)
               /\ web' = Respond(w, 200, {doc}, {})
  /\ UNCHANGED <<inbox, seen, fetch, del>>

\* DELETE /:id
WebDelete(u, k) ==
  LET w == [web EXCEPT !.req = Request("delete", u, k)]
      found == ByIdAndOwner(store, k, u)
  IN
  /\ web.req = NoReq
  /\ store' = store \ found
  /\ web' = IF found = {} THEN Respond(w, 404, {}, {}) ELSE Respond(w, 200, {}, {})
  /\ UNCHANGED <<inbox, seen, fetch, del>>

\* POST /generate-reply/:emailId: the reply is generated and returned, nothing
\* is stored
WebGenerate(u, k) ==
  LET w == [web EXCEPT !.req = Request("generate", u, k)]
      found == ByIdAndOwner(store, k, u)
  IN
  /\ web.req = NoReq
  /\ \E ok \in BOOLEAN :
       web' = IF found = {} THEN Respond(w, 404, {}, {})
              ELSE IF ok THEN Respond(w, 200, found, {})
              ELSE Respond(w, 500, {}, {})
  /\ UNCHANGED <<inbox, seen, store, fetch, del>>

\* the loop of POST /process-pending reaches the documents from position c on
PendingLoop(w, list) ==
  IF list = <<>> THEN Respond(w, 200, {}, {})
  ELSE [w EXCEPT !.req.step = "save1",
                 !.req.list = Tail(list),
                 !.req.doc = [Head(list) EXCEPT !.status = "processing"]]

\* POST /process-pending until the first save: the user's settings are read,
\* then Email.find({ userId, status: 'pending' }).limit(10)
WebPending(u) ==
  LET w == [web EXCEPT !.req = Request("pending", u, 0)]
  IN
  /\ web.req = NoReq
  /\ \E enabled \in BOOLEAN :
       web' = IF ~enabled THEN Respond(w, 400, {}, {})
              ELSE PendingLoop(w, InIdOrder(ByOwner(store, u, "pending")))
  /\ UNCHANGED <<inbox, seen, store, fetch, del>>

\* the save of status 'processing' answers; processEmailWithAI is awaited
WebPendingSave1 ==
  /\ web.req.route = "pending"
  /\ web.req.step = "save1"
  /\ store' = Persist(store, web.req.doc)
  /\ web' = [web EXCEPT !.req.step = "ai"]
  /\ UNCHANGED <<inbox, seen, fetch, del>>

\* processEmailWithAI answers: the document becomes 'replied' with the
\* generated text as aiResponse, or 'failed' in the catch; no mail is sent
WebPendingAI ==
  /\ web.req.route = "pending"
  /\ web.req.step = "ai"
  /\ \E sc \in AIScenarios :
       web' = [web EXCEPT !.req.step = "save2",
                          !.req.doc.status =
                             IF processEmailWithAI(sc).threw THEN "failed" ELSE "replied"]
  /\ UNCHANGED <<inbox, seen, store, fetch, del>>

\* the second save answers and the loop goes on
WebPendingSave2 ==
  /\ web.req.route = "pending"
  /\ web.req.step = "save2"
  /\ store' = Persist(store, web.req.doc)
  /\ web' = PendingLoop(web, web.req.list)
  /\ UNCHANGED <<inbox, seen, fetch, del>>

\* (variant: the configuration is saved whatever the verification says)
VerifiedAlways(verification) == TRUE

\* if (!verification.success) return res.status(400)
Verified(verification) == verification

\* POST /config until verifyGmailConnection is awaited
WebConfigPost(u) ==
  LET w == [web EXCEPT !.req = Request("postConfig", u, 0)]
  IN
  /\ web.req = NoReq
  /\ \E e \in BodyEmail, p \in BodyPassword :
       web' = IF e = "" \/ p = ""
              THEN Respond(w, 400, {}, {})
              ELSE [w EXCEPT !.req.step = "verify", !.req.email = e, !.req.password = p]
  /\ UNCHANGED <<inbox, seen, store, fetch, del>>

\* verifyGmailConnection answers { success }; it never throws
WebConfigVerify ==
  /\ web.req.route = "postConfig"
  /\ web.req.step = "verify"
  /\ \E success \in BOOLEAN :
       web' = IF Verified(success)
              THEN [web EXCEPT !.req.step = "save", !.req.verification = success]
              ELSE Respond(web, 400, {}, {})
  /\ UNCHANGED <<inbox, seen, store, fetch, del>>

\* user.emailConfig = { provider: 'gmail', email, password }; user.save()
WebConfigSave ==
  /\ web.req.route = "postConfig"
  /\ web.req.step = "save"
  /\ \E ok \in BOOLEAN :
       web' = IF ok
              THEN Respond([web EXCEPT !.config[web.req.user] =
                                          GmailConfig(web.req.email, web.req.password)],
                           200, {}, {web.req.email, "verified"})
              ELSE Respond(web, 500, {}, {})
  /\ UNCHANGED <<inbox, seen, store, fetch, del>>

\* GET /config: configured, email and provider
WebConfigGet(u) ==
  LET w == [web EXCEPT !.req = Request("getConfig", u, 0)]
      c == web.config[u]
  IN
  /\ web.req = NoReq
  /\ web' = IF c = NoConfig THEN Respond(w, 200, {}, {"notConfigured"})
            ELSE Respond(w, 200, {}, {"configured", c.email, c.provider})
  /\ UNCHANGED <<inbox, seen, store, fetch, del>>

\* DELETE /config
WebConfigDelete(u) ==
  LET w == [web EXCEPT !.req = Request("deleteConfig", u, 0)]
  IN
  /\ web.req = NoReq
  /\ web' = Respond([w EXCEPT !.config[u] = NoConfig], 200, {}, {})
  /\ UNCHANGED <<inbox, seen, store, fetch, del>>

\* ----------------------------------------------------------- specification
\* the stores other owners' earlier fetches can have left: one record per
\* identifier at most, by the unique index
RECURSIVE StoreOf(_)
StoreOf(ms) ==
  IF ms = {} THEN {}
  ELSE LET m == CHOOSE x \in ms : TRUE
           rest == StoreOf(ms \ {m})
       IN rest \cup {NewEmail(rest, CHOOSE u \in Owners : u # Account, m)}

InitStores == {StoreOf(ms) : ms \in SUBSET MsgIds}

\* records the given owner holds from earlier fetches, still pending
RECURSIVE StoreFor(_, _)
StoreFor(u, ms) ==
  IF ms = {} THEN {}
  ELSE LET m == CHOOSE x \in ms : TRUE
           rest == StoreFor(u, ms \ {m})
       IN rest \cup {NewEmail(rest, u, m)}

InitFetch ==
  /\ inbox \in SeqsUpTo(MsgIds, MaxInbox)
  /\ seen = {}
  /\ store \in InitStores
  /\ fetch = [i \in Invocations |-> IdleFetch]
  /\ del = IdleDelete
  /\ web = IdleWeb

NextFetch ==
  \E i \in Invocations :
    \/ FetchStart(i)
    \/ FetchReady(i)
    \/ FetchOpenBoxErr(i)
    \/ FetchOpenBoxOk(i)
    \/ FetchSearchErr(i)
    \/ FetchSearchOk(i)
    \/ FetchMessage(i)
    \/ \E k \in 1..(MaxInbox + 1) : ParseErr(i, k)
    \/ \E k \in 1..(MaxInbox + 1) : ParseOk(i, k)
    \/ \E k \in 1..(MaxInbox + 1) : FindOneDone(i, k)
    \/ \E k \in 1..(MaxInbox + 1) : DbError(i, k)
    \/ \E k \in 1..(MaxInbox + 1) : SaveDone(i, k)
    \/ FetchError(i)
    \/ FetchEnd(i)
    \/ FetchDelayFire(i)
    \/ FetchImapError(i)
    \/ FetchImapEnd(i)
    \/ FetchConnTimeout(i)
    \/ FetchOpTimeout(i)

SpecFetch == InitFetch /\ [][NextFetch]_vars

\* A caller that repeats its request: the first invocation, then the same
\* invocation again each time the previous one has resolved, no mail arriving.
NextRepeat ==
  \E i \in Invocations :
    \/ FetchStart(i) /\ fetch[i].st = "idle"
    \/ FetchAgain(i)
    \/ FetchReady(i)
    \/ FetchOpenBoxErr(i)
    \/ FetchOpenBoxOk(i)
    \/ FetchSearchErr(i)
    \/ FetchSearchOk(i)
    \/ FetchMessage(i)
    \/ \E k \in 1..(MaxInbox + 1) : ParseErr(i, k)
    \/ \E k \in 1..(MaxInbox + 1) : ParseOk(i, k)
    \/ \E k \in 1..(MaxInbox + 1) : FindOneDone(i, k)
    \/ \E k \in 1..(MaxInbox + 1) : DbError(i, k)
    \/ \E k \in 1..(MaxInbox + 1) : SaveDone(i, k)
    \/ FetchError(i)
    \/ FetchEnd(i)
    \/ FetchDelayFire(i)
    \/ FetchImapError(i)
    \/ FetchImapEnd(i)
    \/ FetchConnTimeout(i)
    \/ FetchOpTimeout(i)

SpecRepeat == InitFetch /\ [][NextRepeat]_vars

\* Two requests for the same account arrive together and their invocations run
\* at the same time, each once with a limit that covers the mailbox, on the
\* same mailbox and on the same store, which starts empty. Both sessions open
\* and answer their commands; the parser and store callbacks of the two
\* batches interleave freely, each may fail, and either session may end at any
\* moment.
Concurrent == {1, 2}

InitConcurrent ==
  /\ inbox \in SeqsUpTo(MsgIds, MaxInbox)
  /\ seen = {}
  /\ store = {}
  /\ fetch = [i \in Concurrent |-> IdleFetch]
  /\ del = IdleDelete
  /\ web = IdleWeb

NextConcurrent ==
  \E i \in Concurrent :
    \/ FetchStart(i) /\ fetch[i].st = "idle" /\ fetch'[i].limit = MaxLimit
    \/ FetchReady(i)
    \/ FetchOpenBoxOk(i)
    \/ FetchSearchOk(i)
    \/ FetchMessage(i)
    \/ \E k \in 1..(MaxInbox + 1) : ParseErr(i, k)
    \/ \E k \in 1..(MaxInbox + 1) : ParseOk(i, k)
    \/ \E k \in 1..(MaxInbox + 1) : FindOneDone(i, k)
    \/ \E k \in 1..(MaxInbox + 1) : DbError(i, k)
    \/ \E k \in 1..(MaxInbox + 1) : SaveDone(i, k)
    \/ FetchEnd(i)
    \/ FetchDelayFire(i)
    \/ FetchImapEnd(i)

SpecConcurrent == InitConcurrent /\ [][NextConcurrent]_vars

InitDelete ==
  /\ inbox = <<>>
  /\ seen = {}
  /\ store = StoreFor(Account, MsgIds)
  /\ fetch = [i \in Invocations |-> IdleFetch]
  /\ del = IdleDelete
  /\ web = IdleWeb

NextDelete ==
  \/ DelStart
  \/ DelReady
  \/ DelGetBoxesErr
  \/ DelGetBoxesOk
  \/ DelOpenBoxErr
  \/ DelOpenBoxEmpty
  \/ DelOpenBoxOk
  \/ DelSearchErr
  \/ DelSearchOk
  \/ DelAddFlagsErr
  \/ DelAddFlagsOk
  \/ DelExpungeErr
  \/ DelExpungeOk
  \/ DelImapError
  \/ DelImapEnd
  \/ DelOpTimeout

SpecDelete == InitDelete /\ [][NextDelete]_vars

\* The cleanup with the server side of the folders on record. INBOX holds no
\* message flagged \Deleted, or two that an earlier run found with the
\* Promotions label and flagged, and whose expunge failed.
InitTally ==
  /\ inbox = <<>>
  /\ seen = {}
  /\ store = {}
  /\ fetch = [i \in Invocations |-> IdleFetch]
  /\ del \in {[IdleDelete EXCEPT !.server = TRUE, !.flagged = fl] :
               fl \in {{}, {[folder |-> <<"INBOX">>,
                             criteria |-> SearchCriteria(InboxWithLabel("Promotions")),
                             n |-> 2]}}}
  /\ web = IdleWeb

SpecTally == InitTally /\ [][NextDelete]_vars

\* the folder resolution alone, over the wider trees
NextTree ==
  \/ DelStart
  \/ DelReady
  \/ DelGetBoxesWide

SpecTree == InitDelete /\ [][NextTree]_vars

\* A request to POST /fetch, or a direct call of fetchGmailEmails, with any
\* criteria, on a mailbox whose oldest messages are flagged \Seen and on a
\* store that is empty or holds a pending record of the account from an
\* earlier fetch. The session opens or fails at openBox, the commands are
\* answered, every message is parsed and looked up, and the session may end at
\* any moment; the route then reads the user's settings and walks the list.
InitRoute ==
  /\ inbox \in SeqsUpTo(MsgIds, MaxInbox)
  /\ seen \in {1..n : n \in 0..Len(inbox)}
  /\ store \in {{}, StoreFor(Account, {"m1"})}
  /\ fetch = [i \in Invocations |-> IdleFetch]
  /\ del = IdleDelete
  /\ web = IdleWeb

NextRoute ==
  \E i \in Invocations :
    \/ FetchCall(i)
    \/ RouteFetch(i)
    \/ FetchReady(i)
    \/ FetchOpenBoxErr(i)
    \/ FetchOpenBoxOk(i)
    \/ FetchSearchOk(i)
    \/ FetchMessage(i)
    \/ \E k \in 1..(MaxInbox + 1) : ParseOk(i, k)
    \/ \E k \in 1..(MaxInbox + 1) : FindOneDone(i, k)
    \/ \E k \in 1..(MaxInbox + 1) : SaveDone(i, k)
    \/ FetchEnd(i)
    \/ FetchDelayFire(i)
    \/ FetchImapEnd(i)
    \/ RouteSettled(i)
    \/ RouteUser(i)
    \/ RouteUserErr(i)
    \/ RouteSaved(i)
    \/ RouteSaveErr(i)
    \/ RouteAI(i)
    \/ RouteReply(i)

SpecRoute == InitRoute /\ [][NextRoute]_vars

\* The email and agent routes of two owners, one request at a time, on a store
\* that holds two pending records: both of the account, or one of each owner.
\* The account has a mail configuration or has none; the other owner has one.
\* Every outcome of the mail transport, of the AI services and of the save of
\* the reply route is drawn.
InitWeb ==
  /\ inbox = <<>>
  /\ seen = {}
  /\ store \in {StoreFor(Account, MsgIds),
                StoreFor(Account, {"m1"}) \cup
                  {NewEmail(StoreFor(Account, {"m1"}), CHOOSE u \in Owners : u # Account, "m2")}}
  /\ fetch = [i \in Invocations |-> IdleFetch]
  /\ del = IdleDelete
  /\ web \in {[IdleWeb EXCEPT !.config = [u \in Owners |-> IF u = Account THEN c
                                                        ELSE GmailConfig("a@gmail.com", "pw1")]] :
               c \in {NoConfig, GmailConfig("a@gmail.com", "pw2")}}

NextWeb ==
  \/ \E u \in Owners : WebList(u)
  \/ \E u \in Owners, k \in DocIds : WebGet(u, k)
  \/ \E u \in Owners, k \in DocIds : WebReply(u, k)
  \/ WebReplySend
  \/ WebReplySave
  \/ \E u \in Owners, k \in DocIds : WebStatus(u, k)
  \/ \E u \in Owners, k \in DocIds : WebDelete(u, k)
  \/ \E u \in Owners, k \in DocIds : WebGenerate(u, k)
  \/ \E u \in Owners : WebPending(u)
  \/ WebPendingSave1
  \/ WebPendingAI
  \/ WebPendingSave2

SpecWeb == InitWeb /\ [][NextWeb]_vars

\* The config routes of two owners, one request at a time, from no stored
\* configuration: every body of POST /config, every outcome of the
\* verification and of the save.
InitConfig ==
  /\ inbox = <<>>
  /\ seen = {}
  /\ store = {}
  /\ fetch = [i \in Invocations |-> IdleFetch]
  /\ del = IdleDelete
  /\ web = IdleWeb

NextConfig ==
  \/ \E u \in Owners : WebConfigPost(u)
  \/ WebConfigVerify
  \/ WebConfigSave
  \/ \E u \in Owners : WebConfigGet(u)
  \/ \E u \in Owners : WebConfigDelete(u)

SpecConfig == InitConfig /\ [][NextConfig]_vars

\* ------------------------------------------------------------------ claims
MessageIds(records) == {r.messageId : r \in records}

\* C1: deduplication. The store never holds two records for one owner and one
\* message identifier, and an invocation that started when a record for the
\* account and identifier m existed creates no record for m and has no record
\* for m in its list.
C1_Deduplication ==
  /\ \A u \in Owners, m \in MsgIds :
       Cardinality({r \in store : r.userId = u /\ r.messageId = m}) <= 1
  /\ \A i \in Invocations, m \in MsgIds :
       FindOne(fetch[i].pre, Account, m) # {} =>
         /\ m \notin MessageIds(fetch[i].created)
         /\ m \notin MessageIds(Range(fetch[i].emails))
         /\ m \notin MessageIds(Range(fetch[i].result))

\* a later invocation met an identifier stored by an earlier one, skipped it and resolved
C1_Witness ==
  \E i \in Invocations :
    /\ fetch[i].st = "resolved"
    /\ \E k \in DOMAIN fetch[i].stage :
         /\ fetch[i].stage[k] = "dup"
         /\ FindOne(fetch[i].pre, Account, MessageIdOf(fetch[i], k)) # {}

\* C2: session closure. imap.end() is requested exactly once per invocation:
\* never twice, and once by the time the invocation has settled.
C2_ClosedExactlyOnce ==
  /\ \A i \in Invocations :
       /\ fetch[i].endCalls <= 1
       /\ Settled(fetch[i]) => fetch[i].endCalls = 1
  /\ del.endCalls <= 1
  /\ del.st \in {"resolved", "rejected"} => del.endCalls = 1

\* C3: termination. No reachable state leaves the promise of an invocation
\* pending with every timer disarmed.
C3_PendingHasTimer ==
  /\ \A i \in Invocations : fetch[i].st = "pending" => fetch[i].timers # {}
  /\ del.st = "pending" => del.timer

\* a failed open, search, addFlags or expunge callback
FolderFailureStep == DelOpenBoxErr \/ DelSearchErr \/ DelAddFlagsErr \/ DelExpungeErr

\* the categories from index a up to index b - 1 have their tally entry
Recorded(d, a, b) == \A k \in a..(b - 1) : d.categories[k] \in DOMAIN d.deletedCounts

\* C4: category independence. A failed open, search, addFlags or expunge in a
\* folder adds nothing to the category's count and does not settle the run;
\* processing moves to the next folder of the category or, after recording the
\* category, to the first folder of the next category that has one, and when
\* none is left every category of the request has been recorded.
C4_CategoryIndependence ==
  [][FolderFailureStep =>
       /\ del'.st = del.st
       /\ del'.categoryTotalDeleted = del.categoryTotalDeleted
       /\ IF del.folderIndex < Len(del.folders)
          THEN /\ del'.index = del.index
               /\ del'.folderIndex = del.folderIndex + 1
               /\ del'.deletedCounts = del.deletedCounts
               /\ del.endCalls = 0 => del'.cmd = "openBox"
          ELSE /\ del'.index > del.index
               /\ Recorded(del', del.index, del'.index)
               /\ del'.deletedCounts[del.categories[del.index]]
                    = del.categoryTotalDeleted[del.index]
               /\ del'.processedCategories = del'.index - 1
               /\ IF del'.index <= Len(del.categories)
                  THEN /\ del'.folderIndex = 1
                       /\ del'.folders =
                            FoldersToProcess(categoryMap[del.categories[del'.index]],
                                             del.boxes)
                       /\ del.endCalls = 0 => del'.cmd = "openBox"
                  ELSE /\ del'.processedCategories = Len(del.categories)
                       /\ del'.endCalls = del.endCalls + 1]_vars

\* a run resolved although a folder of promotional failed, and spam was still counted
C4_Witness ==
  /\ del.st = "resolved" /\ del.failed
  /\ del.categories = <<"promotional", "spam">>
  /\ del.result["promotional"] = 0 /\ del.result["spam"] = 5

RECURSIVE SumOver(_, _)
SumOver(S, f) ==
  IF S = {} THEN 0
  ELSE LET x == CHOOSE y \in S : TRUE IN f[x] + SumOver(S \ {x}, f)

\* no candidate folder name of the category exists in the tree
NoCandidate(c, boxes) ==
  \A k \in DOMAIN categoryMap[c].folders : ~mailboxExists(boxes, categoryMap[c].folders[k])

\* C5: tally completeness. A resolved cleanup has an entry, a natural number,
\* for exactly the requested category names, 0 for a name the table does not
\* know and for a category without a resolved folder, and the route's
\* totalDeleted is the sum of the entries.
C5_TallyComplete ==
  del.st = "resolved" =>
    /\ DOMAIN del.result = Range(del.categories)
    /\ \A c \in DOMAIN del.result :
         /\ del.result[c] \in Nat
         /\ c \notin DOMAIN categoryMap => del.result[c] = 0
         /\ (c \in DOMAIN categoryMap /\ FoldersToProcess(categoryMap[c], del.boxes) = <<>>)
              => del.result[c] = 0
    /\ del.response = "ok"
    /\ del.totalDeleted = SumOver(Range(del.categories), del.result)

\* a resolved run over an unknown name and a category that deleted messages
C5_Witness ==
  /\ del.st = "resolved"
  /\ del.categories = <<"bogus", "spam">>
  /\ del.result["bogus"] = 0 /\ del.result["spam"] = 3 /\ del.totalDeleted = 3

\* the k last elements of a sequence
LastOf(s, k) == [j \in 1..k |-> s[Len(s) - k + j]]

\* C6: limit slicing. With N matches and a limit 0 <= L < N the body fetch is
\* requested for exactly the L last matches.
C6_LimitSlicing ==
  \A i \in Invocations :
    (fetch[i].cmd = "fetch" /\ fetch[i].limit < Len(SearchResults(inbox)))
      => fetch[i].emailsToFetch = LastOf(SearchResults(inbox), fetch[i].limit)

\* the category whose folders are being processed
Current(d) == d.categories[d.index]

Processing(d) == d.index \in 1..Len(d.categories) /\ d.cmd # "none"

C8_TwoPhase ==
  [][/\ \A k \in DOMAIN del.categoryTotalDeleted :
          del'.categoryTotalDeleted[k] # del.categoryTotalDeleted[k] =>
            /\ DelExpungeOk
            /\ k = del.index
            /\ del'.categoryTotalDeleted[k] = del.categoryTotalDeleted[k] + del.results
     /\ (del'.cmd = "expunge" /\ del.cmd # "expunge") => DelAddFlagsOk
     /\ DelAddFlagsErr => del'.cmd \notin {"expunge", "addFlags"}
     /\ DelExpungeErr =>
          /\ del'.categoryTotalDeleted = del.categoryTotalDeleted
          /\ del'.cmd \notin {"expunge", "addFlags"}
          /\ <<del'.index, del'.folderIndex>> # <<del.index, del.folderIndex>>]_vars

\* the first folder of a category was credited after both phases and the second
\* is flagged, its expunge outstanding
C8_Witness ==
  /\ del.cmd = "expunge" /\ del.folderIndex = 2 /\ del.results = 3
  /\ del.categoryTotalDeleted[del.index] = 2

\* the last position of a name in the request
LastIndex(cats, c) == CHOOSE k \in DOMAIN cats : cats[k] = c /\ \A j \in DOMAIN cats : cats[j] = c => j <= k

\* C9: tally value. When no protocol step failed, the resolved entry of each
\* category is the sum of the search matches of its folders and totalDeleted is
\* the sum of the entries.
C9_TallyValue ==
  (del.st = "resolved" /\ ~del.failed) =>
    /\ \A c \in DOMAIN del.result :
         del.result[c] = del.matched[LastIndex(del.categories, c)]
    /\ del.totalDeleted = SumOver(DOMAIN del.result, del.result)

\* the scenario of the specification: promotional 3 + 2, spam 5, total 10
C9_Witness ==
  /\ del.st = "resolved" /\ ~del.failed
  /\ del.categories = <<"promotional", "spam">>
  /\ Len(FoldersToProcess(categoryMap["promotional"], del.boxes)) = 2
  /\ del.result["promotional"] = 5 /\ del.result["spam"] = 5
  /\ del.totalDeleted = 10

\* every requested message is new to the store and carries its own identifier
AllFresh(f) ==
  /\ \A m \in Range(inbox) : ~UniqueViolation(f.pre, m)
  /\ \A j, k \in DOMAIN inbox : inbox[j] = inbox[k] => j = k

\* the session ended after the close the invocation requested itself, once,
\* from the timer of the fetch end handler
ClosedByDelay(f) ==
  f.fetchCompleted /\ f.endCalls = 1 /\ f.timers = {} /\ f.conn = "ended"

\* C10: the fetch result is what was stored. Once an invocation has resolved
\* after its own close request, the list it resolved with (the emails array,
\* which the caller receives by reference) holds exactly the records the
\* invocation created, each pending; when every match is fresh, the limit
\* covers them and no parse or store call has failed, the list has one record
\* per match and the store has them.
C10_ResultIsStored ==
  \A i \in Invocations :
    LET f == fetch[i] IN
    (f.st = "resolved" /\ ClosedByDelay(f)) =>
      /\ Range(f.emails) = f.created
      /\ \A r \in Range(f.emails) : r.status = "pending"
      /\ (/\ AllFresh(f)
          /\ f.limit >= Len(inbox) /\ f.limit > 0
          /\ \A k \in DOMAIN f.stage : f.stage[k] \notin {"parseErr", "dbErr"})
           => /\ Len(f.emails) = Len(inbox)
              /\ MessageIds(Range(f.emails)) = Range(inbox)
              /\ f.created \subseteq store

\* C11 as stated: an invocation that follows a resolved one with the same limit,
\* no mail having arrived, creates no record and resolves with an empty list.
C11_AfterAnyResolved ==
  \A i \in Invocations :
    fetch[i].prior \in {"clean", "faulty"} =>
      /\ fetch[i].created = {} /\ fetch[i].emails = <<>>
      /\ store = fetch[i].pre
      /\ fetch[i].st = "resolved" => fetch[i].result = <<>>

\* C11 amended: an invocation that follows a resolved one with the same limit in
\* which every requested message was stored or skipped as a duplicate, no mail
\* having arrived, creates no record, leaves the store as it found it and
\* resolves with an empty list.
C11_Idempotent ==
  \A i \in Invocations :
    fetch[i].prior = "clean" =>
      /\ fetch[i].created = {} /\ fetch[i].emails = <<>>
      /\ store = fetch[i].pre
      /\ fetch[i].st = "resolved" => fetch[i].result = <<>>

\* the second invocation met the messages the first one stored and resolved
C11_Witness ==
  \E i \in Invocations :
    /\ fetch[i].prior = "clean" /\ fetch[i].st = "resolved"
    /\ fetch[i].pre # {} /\ Len(fetch[i].stage) = 2
    /\ \A k \in DOMAIN fetch[i].stage : fetch[i].stage[k] = "dup"
    /\ \E r \in fetch[i].pre : r.userId = Account

Failed(f) == {k \in DOMAIN f.stage : f.stage[k] \in {"parseErr", "dbErr"}}

Saved(f) == {k \in DOMAIN f.stage : f.stage[k] = "saved"}

\* a step in which message k of invocation i fails: the parser calls back with
\* an error, the store fails the query or the write, or refuses the insert
ItemFailureStep(i, k) ==
  /\ k \in DOMAIN fetch[i].stage /\ fetch[i].stage[k] \in {"parsing", "finding", "saving"}
  /\ k \in Failed(fetch'[i])

\* C12: per-message fault isolation. A parse or store failure on message k
\* does not settle the promise, does not close the session and leaves the store,
\* the list and the progress of every other message of the batch as they were;
\* the list holds one record per saved message and none for a failed one.
C12_FaultIsolation ==
  /\ [](\A i \in Invocations :
          LET f == fetch[i] IN
          /\ Len(f.emails) = Cardinality(Saved(f))
          /\ MessageIds(Range(f.emails)) = {MessageIdOf(f, k) : k \in Saved(f)}
          /\ f.st = "resolved" =>
               MessageIds(Range(f.result)) \subseteq {MessageIdOf(f, k) : k \in Saved(f)})
  /\ [][\A i \in Invocations : \A k \in 1..(MaxInbox + 1) :
         ItemFailureStep(i, k) =>
           /\ fetch'[i].st = fetch[i].st /\ fetch'[i].err = fetch[i].err
           /\ fetch'[i].endCalls = fetch[i].endCalls
           /\ fetch'[i].conn = fetch[i].conn /\ fetch'[i].cmd = fetch[i].cmd
           /\ fetch'[i].timers = fetch[i].timers
           /\ fetch'[i].emails = fetch[i].emails /\ store' = store
           /\ k \in Failed(fetch'[i])
           /\ \A j \in DOMAIN fetch[i].stage :
                j # k => fetch'[i].stage[j] = fetch[i].stage[j]]_vars

\* the first message of a batch failed to parse, the second was stored and is
\* the only record of the list the invocation resolved with
C12_Witness ==
  \E i \in Invocations :
    LET f == fetch[i] IN
    /\ f.st = "resolved" /\ f.stage = <<"parseErr", "saved">>
    /\ Len(f.result) = 1 /\ f.result[1].messageId = MessageIdOf(f, 2)
    /\ f.result[1] \in store

\* the error values that are remediation messages written by the service
Hints == {"hint:reset", "hint:unreachable", "hint:timeout", "hint:auth"}

\* C13: a session that fails to open rejects with a remediation hint. A
\* connection error delivered before ready rejects the pending promise of
\* fetchGmailEmails and of deleteGmailEmails with one of the service's hint
\* messages, not with the library's error.
C13_OpenFailureHint ==
  [][/\ \A i \in Invocations :
          (FetchImapError(i) /\ fetch[i].conn = "connecting" /\ fetch[i].st = "pending")
            => fetch'[i].err \in Hints
     /\ (DelImapError /\ del.conn = "connecting" /\ del.st = "pending")
          => del'.err \in Hints]_vars

\* C14: cleanup fails outright only when the session was never established.
\* Once the session is ready, no step rejects the pending promise of
\* deleteGmailEmails.
C14_NoRejectAfterReady ==
  [][(del.conn = "ready" /\ del.st = "pending") => del'.st # "rejected"]_vars

\* C15: premature end. After the session has ended the invocation is settled,
\* or a timer that will settle it is still armed.
C15_EndSettles ==
  /\ \A i \in Invocations :
       fetch[i].conn = "ended" => Settled(fetch[i]) \/ fetch[i].timers # {}
  /\ del.conn = "ended" => del.st \in {"resolved", "rejected"} \/ del.timer

\* the position of the pipeline: the category and the folder being processed
Position(d) == <<d.index, d.folderIndex>>

FolderCommands == {"openBox", "search", "addFlags", "expunge"}

\* C16: serialized command pipeline of cleanup. At most one command is
\* outstanding; while a folder of category k is processed every earlier
\* category has its tally entry; the listing is issued by the ready handler and
\* answered before a folder is opened; a folder is opened from the listing or
\* when the folder before it is finished, the next folder of the category
\* first and the first folder of a later category after the last one; search
\* follows the open, addFlags the search and expunge the addFlags of the same
\* folder.
C16_Serialized ==
  /\ [](/\ del.outstanding \in {0, 1}
        /\ del.cmd # "none" => del.outstanding = 1
        /\ del.cmd \in FolderCommands =>
             /\ del.index \in 1..Len(del.categories)
             /\ del.folderIndex \in 1..Len(del.folders)
             /\ del.processedCategories = del.index - 1
             /\ Recorded(del, 1, del.index))
  /\ [][(del'.cmd # del.cmd \/ Position(del') # Position(del)) =>
          /\ del'.cmd = "getBoxes" => (DelReady /\ del.cmd = "none")
          /\ del'.cmd = "openBox" =>
               /\ del.cmd \in {"getBoxes"} \cup FolderCommands
               /\ IF del.cmd = "getBoxes" THEN del'.folderIndex = 1
                  ELSE IF del.folderIndex < Len(del.folders)
                       THEN /\ del'.index = del.index
                            /\ del'.folderIndex = del.folderIndex + 1
                       ELSE /\ del'.index > del.index
                            /\ del'.folderIndex = 1
          /\ del'.cmd = "search" =>
               (del.cmd = "openBox" /\ Position(del') = Position(del))
          /\ del'.cmd = "addFlags" =>
               (del.cmd = "search" /\ Position(del') = Position(del))
          /\ del'.cmd = "expunge" =>
               (del.cmd = "addFlags" /\ Position(del') = Position(del))]_vars

\* the second folder of the second category is being expunged, the first
\* category recorded
C16_Witness ==
  /\ del.cmd = "expunge" /\ del.outstanding = 1
  /\ del.index = 2 /\ del.folderIndex = 2
  /\ del.categories[1] \in DOMAIN del.deletedCounts

\* the positions of the candidate names of category c that exist in the tree
ExistingAt(c, boxes) ==
  {k \in DOMAIN categoryMap[c].folders : mailboxExists(boxes, categoryMap[c].folders[k])}

\* the first candidate name of c, in table order, that exists: a list of
\* length 0 or 1
FirstCandidate(c, boxes) ==
  IF ExistingAt(c, boxes) = {} THEN <<>>
  ELSE LET k == CHOOSE x \in ExistingAt(c, boxes) : \A y \in ExistingAt(c, boxes) : x <= y
       IN <<categoryMap[c].folders[k]>>

\* the references that are physical candidate folders, not the label overlay
Physical(fs) == {k \in DOMAIN fs : ~fs[k].useLabel}

\* what the resolution rule gives for category c of the table
Resolves(c, boxes, fs) ==
  LET cfg == categoryMap[c]
      cand == FirstCandidate(c, boxes)
  IN
  /\ Cardinality(Physical(fs)) <= 1
  /\ IF cfg.label # "null"
     THEN /\ Len(fs) = 1 + Len(cand)
          /\ fs[1].folder = <<"INBOX">> /\ fs[1].useLabel /\ fs[1].labelName = cfg.label
          /\ Len(fs) = 2 =>
               /\ fs[2].folder = cand[1] /\ ~fs[2].useLabel
               /\ fs[2].labelName = "null" /\ fs[2].searchFrom = "none"
     ELSE /\ Len(fs) = Len(cand)
          /\ Len(fs) = 1 =>
               /\ fs[1].folder = cand[1] /\ ~fs[1].useLabel /\ fs[1].labelName = "null"
               /\ fs[1].searchFrom = cfg.searchFrom
               /\ cfg.searchFrom # "none" => fs[1].folder = <<"INBOX">>

\* C17: folder resolution. Once the folders are listed, every category of the
\* request that the table knows resolves to: the INBOX reference with the label
\* filter followed by the first existing candidate, if any, for a label-overlay
\* category; INBOX with the sender filter alone for a sender-substring
\* category; the first existing candidate alone for a plain category; never
\* more than one physical candidate. The folders being processed are the
\* resolved list of the current category.
C17_FolderResolution ==
  /\ del.index >= 1 =>
       \A c \in Range(del.categories) \cap DOMAIN categoryMap :
         Resolves(c, del.boxes, FoldersToProcess(categoryMap[c], del.boxes))
  /\ del.cmd \in FolderCommands =>
       /\ Current(del) \in DOMAIN categoryMap
       /\ Resolves(Current(del), del.boxes, del.folders)
       /\ del.folders = FoldersToProcess(categoryMap[Current(del)], del.boxes)

\* spam exists both as [Gmail]/Spam and as Spam and only the first is opened;
\* promotional was resolved to INBOX with its label and [Gmail]/Promotions
C17_Witness ==
  /\ del.categories = <<"promotional", "spam">>
  /\ ExistingAt("spam", del.boxes) = {1, 2}
  /\ Len(FoldersToProcess(categoryMap["promotional"], del.boxes)) = 2
  /\ del.index = 2 /\ del.cmd = "openBox"
  /\ del.folders[1].folder = <<"[Gmail]", "Spam">> /\ Len(del.folders) = 1

\* the reference of the folder being processed
CurrentRef(d) == d.folders[d.folderIndex]

\* C18: search criteria per folder reference. The search of a folder is issued
\* with X-GM-LABELS and the category's label for the INBOX reference of a
\* label-overlay category, with FROM and the configured substring for the
\* reference of a sender-substring category and with ALL for every other
\* reference, the physical folder of a label-overlay category included; the
\* messages flagged and expunged are the matches of that search.
C18_SearchCriteria ==
  del.cmd \in {"search", "addFlags", "expunge"} =>
    LET cfg == categoryMap[Current(del)]
        ref == CurrentRef(del)
    IN
    /\ del.criteria =
         IF cfg.label # "null" /\ del.folderIndex = 1 /\ ref.folder = <<"INBOX">>
         THEN <<"X-GM-LABELS", cfg.label>>
         ELSE IF cfg.searchFrom # "none"
              THEN <<"FROM", cfg.searchFrom>>
              ELSE <<"ALL">>
    /\ del.cmd \in {"addFlags", "expunge"} => del.results \in MatchCounts \ {0}

\* the physical folder of a label-overlay category is flagged after a search
\* with ALL, its INBOX reference having been searched by label
C18_Witness ==
  /\ del.cmd = "addFlags" /\ del.results = 2
  /\ Current(del) = "promotional" /\ del.folderIndex = 2
  /\ del.criteria = <<"ALL">>
  /\ del.categoryTotalDeleted[del.index] = 3

\* the records of the account with identifier m among a set of records
RecordsFor(records, m) == {r \in records : r.userId = Account /\ r.messageId = m}

\* C19: concurrent fetches for the same account. Whatever the interleaving of
\* two invocations, for every identifier m the store holds at most one record
\* of the account, the two invocations together created at most one, and m
\* is in the list of at most one of them.
C19_ConcurrentDedup ==
  \A m \in MsgIds :
    /\ Cardinality(RecordsFor(store, m)) <= 1
    /\ Cardinality(UNION {RecordsFor(fetch[i].created, m) : i \in Concurrent}) <= 1
    /\ \A i, j \in Concurrent :
         (/\ m \in MessageIds(Range(fetch[i].emails)) \cup MessageIds(Range(fetch[i].result))
          /\ m \in MessageIds(Range(fetch[j].emails)) \cup MessageIds(Range(fetch[j].result)))
           => i = j

\* both invocations found no record for the same identifier; the first has
\* stored its record and the save of the second is still to be answered
C19_Witness ==
  /\ DOMAIN fetch = Concurrent
  /\ fetch[1].stage = <<"saved">> /\ fetch[2].stage = <<"saving">>
  /\ RecordsFor(store, MessageIdOf(fetch[2], 1)) = fetch[1].created
  /\ fetch[1].created # {}

\* the messages of a batch between the start of their existence check and the
\* answer to their save
Writing(f) == {k \in DOMAIN f.stage : f.stage[k] \in {"finding", "saving"}}

\* C20: single in-flight writer within a batch. At most one message of a batch
\* is between its existence check and its save, and a message enters its
\* existence check only when every message before it in the batch has left
\* the pipeline.
C20_SingleWriter ==
  \A i \in Invocations :
    /\ Cardinality(Writing(fetch[i])) <= 1
    /\ \A k \in Writing(fetch[i]) :
         \A j \in 1..(k - 1) : fetch[i].stage[j] \in {"parseErr", "dup", "saved", "dbErr"}

\* C21: empty search in fetch. When the search answers without a match while
\* the promise is pending, the invocation resolves with the empty list, asks
\* for the session close once more and issues no command; an invocation on a
\* mailbox without a match never fetches a body and never writes a record.
C21_EmptySearch ==
  /\ [](\A i \in Invocations :
          (SearchResults(inbox) = <<>> /\ fetch[i].st # "idle") =>
            /\ fetch[i].cmd \notin {"fetch", "fetchErrored"}
            /\ fetch[i].emitted = 0 /\ fetch[i].stage = <<>>
            /\ fetch[i].created = {} /\ store = fetch[i].pre
            /\ fetch[i].st = "resolved" => fetch[i].result = <<>>)
  /\ [][\A i \in Invocations :
         (/\ SearchResults(inbox) = <<>>
          /\ fetch[i].cmd = "search" /\ fetch'[i].cmd # "search"
          /\ fetch'[i].conn = "ready" /\ fetch'[i].err # "search"
          /\ fetch[i].st = "pending" /\ fetch'[i].st # "rejected")
           => /\ fetch'[i].st = "resolved" /\ fetch'[i].result = <<>>
              /\ fetch'[i].err = "none"
              /\ fetch'[i].endCalls = fetch[i].endCalls + 1
              /\ fetch'[i].cmd = "none" /\ "op" \notin fetch'[i].timers
              /\ store' = store]_vars

\* an invocation on a mailbox without a match resolved from the search callback
C21_Witness ==
  \E i \in Invocations :
    /\ inbox = <<>> /\ fetch[i].st = "resolved" /\ fetch[i].result = <<>>
    /\ ~fetch[i].fetchCompleted /\ fetch[i].endCalls = 1 /\ fetch[i].conn = "ready"

\* C22: only session establishment is fatal to a fetch. No invocation is
\* rejected with the error of the open, of the search or of the body fetch.
C22_OnlyOpenIsFatal ==
  \A i \in Invocations :
    fetch[i].st = "rejected" => fetch[i].err \notin {"openBox", "search", "fetch"}

\* C24: the operation timeout stops the work. Once an invocation is rejected
\* with the timeout error, it creates no further store record (fetch) and
\* hands no further addFlags or expunge command to the session (cleanup).
C24_TimeoutStopsWork ==
  [][/\ \A i \in Invocations :
          (fetch[i].st = "rejected" /\ fetch[i].err = "opTimeout"
             /\ fetch'[i].st = "rejected")
            => fetch'[i].created = fetch[i].created
     /\ (del.st = "rejected" /\ del.err = "opTimeout" /\ del'.st = "rejected")
          => (del'.cmd \in {"addFlags", "expunge"} => del'.cmd = del.cmd)]_vars

\* C25: store-if-absent is keyed by (owner, identifier). When the save of a
\* message answers and the store holds no record of the account for its
\* identifier, the record is created and listed, whatever other owners hold.
C25_KeyedByOwner ==
  [][\A i \in Invocations : \A k \in 1..MaxInbox :
       (SaveDone(i, k) /\ FindOne(store, Account, MessageIdOf(fetch[i], k)) = {})
         => /\ FindOne(store', Account, MessageIdOf(fetch[i], k)) # {}
            /\ fetch'[i].stage[k] = "saved"]_vars

\* the filters a folder reference carries
LabelFilter(r) == r.useLabel /\ r.labelName # "null"
SenderFilter(r) == r.searchFrom # "none"

\* the strategies whose mark a list of folder references shows
Strategies(fs) ==
  {b \in {"label", "sender", "plain"} :
     \/ b = "label" /\ \E k \in DOMAIN fs : LabelFilter(fs[k])
     \/ b = "sender" /\ \E k \in DOMAIN fs : SenderFilter(fs[k])
     \/ b = "plain" /\ \A k \in DOMAIN fs : ~LabelFilter(fs[k]) /\ ~SenderFilter(fs[k])}

OneStrategy(cfg, fs) ==
  /\ Cardinality(Strategies(fs)) = 1
  /\ \A k \in DOMAIN fs : ~(LabelFilter(fs[k]) /\ SenderFilter(fs[k]))
  /\ "label" \in Strategies(fs) <=> cfg.label # "null"
  /\ "sender" \in Strategies(fs) => (cfg.label = "null" /\ cfg.searchFrom # "none")
  /\ "plain" \in Strategies(fs) => (cfg.label = "null" /\ (cfg.searchFrom = "none" \/ fs = <<>>))

\* C27: exactly one strategy per category. Against the listed folders, the
\* references built for every entry of the category table show the mark of
\* exactly one of label overlay, sender filter and plain folder, the one the
\* entry's kind selects, and no reference carries both a label filter and a
\* sender filter; the references being processed are built that way.
C27_OneStrategy ==
  /\ [](del.cmd \in FolderCommands =>
         OneStrategy(categoryMap[Current(del)], del.folders))
  /\ [][del'.boxes # del.boxes =>
         \A c \in DOMAIN categoryMap :
           OneStrategy(categoryMap[c], FoldersToProcess(categoryMap[c], del'.boxes))]_vars

\* a label-overlay category with its physical folder and a sender category
\* have both been resolved against one tree, and the second is being searched
C27_Witness ==
  /\ del.categories = <<"promotional", "noreply">>
  /\ Len(FoldersToProcess(categoryMap["promotional"], del.boxes)) = 2
  /\ del.index = 2 /\ del.cmd = "search"
  /\ Strategies(del.folders) = {"sender"}

\* the paths an existence check may be asked about: a flat name or parent/child
Paths ==
  {<<t>> : t \in WideTopNames \cup WideChildNames \cup ChildNames}
    \cup {<<p, c>> : p \in WideTopNames, c \in WideChildNames \cup ChildNames}

\* the tree has the path as a top-level entry or as a child of its parent
InTree(boxes, path) ==
  IF Len(path) = 1 THEN path[1] \in DOMAIN boxes
  ELSE path[1] \in DOMAIN boxes /\ path[2] \in boxes[path[1]]

\* C28 as stated: once the folders are listed, mailboxExists reports a path
\* as existing exactly when the tree has it, for any parent folder.
C28_AnyParent ==
  del.index >= 1 =>
    \A path \in Paths : mailboxExists(del.boxes, path) <=> InTree(del.boxes, path)

\* C28: nested existence check. Once the folders are listed, mailboxExists
\* reports a flat name as existing exactly when it is a top-level entry and
\* a path under [Gmail] exactly when it is in the children of [Gmail]; a path
\* under any other parent is reported as not existing, whatever the tree holds.
C28_GmailNesting ==
  del.index >= 1 =>
    \A path \in Paths :
      mailboxExists(del.boxes, path) <=>
        (InTree(del.boxes, path) /\ (Len(path) = 1 \/ path[1] = "[Gmail]"))

\* spam was resolved to [Gmail]/Spam, found in the children of [Gmail] and not
\* at the top level, in a tree that also holds Archive/Old
C28_Witness ==
  /\ del.index = 1 /\ del.cmd = "openBox" /\ del.categories[1] = "spam"
  /\ del.folders[1].folder = <<"[Gmail]", "Spam">>
  /\ "Spam" \notin DOMAIN del.boxes
  /\ InTree(del.boxes, <<"Archive", "Old">>)
  /\ ~mailboxExists(del.boxes, <<"Archive", "Old">>)

\* C30: cleanup leaves the local store unchanged. No step of deleteGmailEmails
\* or of the DELETE /cleanup route creates, updates or deletes a record: the
\* store always holds the records the account had when the cleanup started.
C30_StoreUnchanged ==
  /\ store = StoreFor(Account, MsgIds)
  /\ [][store' = store]_vars

\* the account holds records, messages were expunged and the route answered
C30_Witness ==
  /\ FindOne(store, Account, "m1") # {}
  /\ del.st = "resolved" /\ del.response = "ok" /\ del.totalDeleted > 0

\* C26 as stated: with no criteria supplied the search is for unseen messages,
\* whoever calls; supplied criteria reach the search unchanged.
C26_DefaultUnseen ==
  \A i \in Invocations :
    fetch[i].st # "idle" =>
      fetch[i].criteria =
        IF fetch[i].supplied = "none" THEN <<"UNSEEN">> ELSE fetch[i].supplied

\* C26: default search criteria. A direct call of fetchGmailEmails without
\* criteria searches for unseen messages only; a request to POST /fetch
\* without criteria searches for all messages, flagged \Seen or not; supplied
\* criteria reach the search unchanged on both ways. The positions requested
\* from the server are among the matches of those criteria.
C26_DefaultPerCaller ==
  \A i \in Invocations :
    fetch[i].st # "idle" =>
      /\ fetch[i].criteria =
           IF fetch[i].supplied # "none" THEN fetch[i].supplied
           ELSE IF fetch[i].route = "none" THEN <<"UNSEEN">> ELSE <<"ALL">>
      /\ fetch[i].criteria = <<"UNSEEN">> =>
           Range(fetch[i].emailsToFetch) \cap seen = {}
      /\ fetch[i].cmd = "fetch" =>
           fetch[i].emailsToFetch =
             EmailsToFetch(Search(inbox, seen, fetch[i].criteria), fetch[i].limit)

\* a request without criteria has had a message flagged \Seen delivered
C26_Witness ==
  \E i \in Invocations :
    /\ fetch[i].route # "none" /\ fetch[i].supplied = "none"
    /\ fetch[i].emitted > 0 /\ fetch[i].emailsToFetch[1] \in seen

\* the records the route has handed to the analysis or to the reply sender,
\* has saved, or holds as the document of the loop
Touched(f) ==
  f.analysed \cup f.repliedTo \cup f.modified
    \cup (IF f.doc = NoDoc THEN {} ELSE {f.doc.id})

IdsOf(records) == {r.id : r \in records}

\* C23: downstream processing touches only newly stored messages. Every
\* record the route analyses, replies to or saves is in the list resolved by
\* its fetchGmailEmails call and was created by that call; the records the
\* account already held, those of the messages skipped as duplicates among
\* them, stay as they were; nothing is touched unless auto-reply is enabled;
\* and a document enters the processing only from the status pending.
C23_OnlyNewlyStored ==
  /\ [](\A i \in Invocations :
          LET f == fetch[i] IN
          /\ Touched(f) \subseteq IdsOf(Range(f.emails))
          /\ Touched(f) \subseteq IdsOf(f.created)
          /\ Touched(f) \cap IdsOf(f.pre) = {}
          /\ f.st # "idle" => f.pre \subseteq store
          /\ ~f.autoReply => Touched(f) = {}
          /\ IdsOf({r \in store : r.status # "pending"}) \subseteq Touched(f))
  /\ [][\A i \in Invocations :
         (fetch'[i].route = "save1" /\ fetch'[i].doc # fetch[i].doc)
           => \E k \in DOMAIN fetch[i].emails :
                /\ fetch[i].emails[k].id = fetch'[i].doc.id
                /\ fetch[i].emails[k].status = "pending"]_vars

\* with auto-reply enabled the request replied to a new message and answered,
\* while a message of the batch was skipped as a duplicate of a held record
C23_Witness ==
  \E i \in Invocations :
    /\ fetch[i].route = "done" /\ fetch[i].autoReply
    /\ fetch[i].repliedTo # {}
    /\ \E r \in store : r.status = "replied"
    /\ \E k \in DOMAIN fetch[i].stage :
         /\ fetch[i].stage[k] = "dup"
         /\ FindOne(fetch[i].pre, Account, MessageIdOf(fetch[i], k)) # {}

\* C29: fetch leaves the remote mailbox unchanged. No step of an invocation
\* changes the messages of the mailbox or their \Seen flags; the bodies are
\* requested with markSeen false; and the only commands an invocation has
\* outstanding are the open, the search and the body fetch.
C29_MailboxUnchanged ==
  /\ ~FetchOptions.markSeen
  /\ [](\A i \in Invocations :
          fetch[i].cmd \in {"none", "openBox", "search", "fetch", "fetchErrored"})
  /\ [][inbox' = inbox /\ seen' = seen]_vars

\* an invocation had every body of a two-message mailbox delivered, stored a
\* record and resolved, and no message is flagged \Seen
C29_Witness ==
  \E i \in Invocations :
    /\ Len(inbox) = 2 /\ seen = {}
    /\ fetch[i].st = "resolved" /\ fetch[i].emitted = 2
    /\ fetch[i].created # {}

\* C35: no armed timer after settling. Once an invocation has resolved or
\* rejected, neither its connection timer nor its operation timer is armed.
C35_NoTimerAfterSettle ==
  /\ \A i \in Invocations : Settled(fetch[i]) => fetch[i].timers = {}
  /\ del.st \in {"resolved", "rejected"} => ~del.timer

\* the positions of a name in the request
Occurrences(cats, c) == {k \in DOMAIN cats : cats[k] = c}

\* C37: repeated category names. When the cleanup resolves, the entry of every
\* category is the sum of what its occurrences in the request were credited,
\* and the total is the sum of what all positions were credited.
C37_RepeatedNames ==
  del.st = "resolved" =>
    /\ \A c \in DOMAIN del.result :
         del.result[c] =
           SumOver(Occurrences(del.categories, c), del.categoryTotalDeleted)
    /\ del.totalDeleted = SumOver(DOMAIN del.categories, del.categoryTotalDeleted)

\* C32: content-analysis degradation. Whenever processEmailWithAI has answered
\* the route: if the MCP server failed, the answer is the direct one, with
\* sentiment neutral and category general when the direct analysis failed; it
\* throws exactly when the MCP server failed and the direct reply generation
\* failed too; and when it throws, the route sets that document to failed,
\* saves it and goes on with the next document once the save has answered.
C32_Degradation ==
  /\ [](\A i \in Invocations :
          LET a == fetch[i].ai IN
          a # NoAI =>
            /\ a.threw <=> (a.scenario.mcp # "ok" /\ ~a.scenario.reply)
            /\ (a.scenario.mcp # "ok" /\ a.scenario.reply) => a.reply = "direct"
            /\ (a.scenario.mcp # "ok" /\ a.scenario.reply /\ ~a.scenario.analysis)
                 => (a.sentiment = "neutral" /\ a.category = "general")
            /\ a.threw => /\ fetch[i].route = "saveFailed"
                           /\ fetch[i].doc.status = "failed"
            /\ ~a.threw => fetch[i].route = "save2")
  /\ [][\A i \in Invocations :
         (fetch[i].route = "saveFailed" /\ fetch'[i].route \notin {"saveFailed", "error"})
           => \/ fetch'[i].route = "done"
              \/ fetch'[i].route = "save1" /\ fetch'[i].cursor > fetch[i].cursor]_vars

\* the MCP server failed, the direct analysis failed and the direct reply was
\* generated: the route holds the neutral, general answer
C32_Witness ==
  \E i \in Invocations :
    /\ fetch[i].ai.scenario.mcp = "analyzeFails" /\ ~fetch[i].ai.scenario.analysis
    /\ fetch[i].ai.reply = "direct" /\ fetch[i].ai.sentiment = "neutral"
    /\ fetch[i].route = "save2"

\* C33: auto-reply lifecycle in the fetch route. Once the request has been
\* answered, no record created by its fetch is left in processing; such a
\* record is replied exactly when its reply was sent, and failed or pending
\* otherwise; and a reply is handed to the sender only for a document that
\* has none sent yet.
C33_Lifecycle ==
  /\ [](\A i \in Invocations :
          fetch[i].route \in {"done", "error"} =>
            \A r \in store :
              r.id \in IdsOf(fetch[i].created) =>
                /\ r.status # "processing"
                /\ r.status = "replied" <=> r.id \in fetch[i].sent)
  /\ [][\A i \in Invocations :
         fetch'[i].sent # fetch[i].sent =>
           /\ fetch[i].doc.id \notin fetch[i].sent
           /\ fetch'[i].sent = fetch[i].sent \cup {fetch[i].doc.id}]_vars

\* C31: status domain. After any sequence of requests to the email and agent
\* routes, the status of every stored message is one of pending, processing,
\* replied, failed, ignored.
C31_StatusDomain == \A r \in store : r.status \in StatusEnum

\* C34: replied means sent. A stored message has the status replied only when
\* an outbound send for it has succeeded.
C34_RepliedMeansSent == \A r \in store : r.status = "replied" => r.id \in web.sent

\* the owner on whose behalf a step of the routes acts
Actor(before, after) ==
  IF before.req # NoReq THEN before.req.user
  ELSE IF after.req # NoReq THEN after.req.user
  ELSE after.resp.user

\* C38: owner isolation. Every response carries only records of the
\* authenticated owner; every step of a request adds, changes or removes only
\* records of that owner; and a request that names an id of which the owner
\* holds no record is answered 404 and leaves the store as it was.
C38_OwnerIsolation ==
  /\ [](\A r \in web.resp.docs : r.userId = web.resp.user)
  /\ [][/\ \A r \in (store \ store') \cup (store' \ store) :
              r.userId = Actor(web, web')
         /\ (/\ web.req = NoReq
             /\ web' # web
             /\ web'.req = NoReq
             /\ web'.resp.route \in {"get", "reply", "status", "delete", "generate"}
             /\ ByIdAndOwner(store, web'.resp.id, web'.resp.user) = {})
            => (web'.resp.code = 404 /\ store' = store)]_vars

\* a status update that names the id of another owner's record was answered
\* 404, and a reply to an own record was sent and stored
C38_Witness ==
  /\ web.resp.route = "status"
  /\ web.resp.code = 404
  /\ \E r \in store : r.id = web.resp.id /\ r.userId # web.resp.user
  /\ \E r \in store : r.status = "replied" /\ r.id \in web.sent

\* C39: credentials are stored only when verified. A step of POST /config
\* changes the stored configuration only in its save, after a verification
\* that succeeded on a body with both fields, and then only the caller's
\* configuration, to the verified pair; no other step but DELETE /config
\* changes a configuration; and no response carries a stored password.
C39_StoredOnlyWhenVerified ==
  /\ [](\A u \in Owners : web.config[u].password \notin web.resp.values)
  /\ [][\A u \in Owners :
           web'.config[u] # web.config[u] =>
             \/ /\ web.req.route = "postConfig"
                /\ web.req.step = "save"
                /\ web.req.verification
                /\ web.req.email # ""
                /\ web.req.password # ""
                /\ u = web.req.user
                /\ web'.config[u] = GmailConfig(web.req.email, web.req.password)
                /\ web'.resp.code = 200
             \/ /\ web'.resp.route = "deleteConfig"
                /\ u = web'.resp.user]_vars

\* a POST /config was refused with 400 while the caller's earlier, verified
\* configuration is still the stored one
C39_Witness ==
  /\ web.resp.route = "postConfig"
  /\ web.resp.code = 400
  /\ web.config[web.resp.user] # NoConfig
\* C36: the tally matches the removals. When deleteGmailEmails has resolved,
\* the entry of every category that occurs once in the request equals the
\* number of messages the server removed from the folders of that category
\* while the run handled it.
C36_TallyMatchesRemovals ==
  (del.server /\ del.st = "resolved") =>
    \A k \in 1..Len(del.categories) :
      Cardinality(Occurrences(del.categories, del.categories[k])) = 1 =>
        del.result[del.categories[k]] = del.removed[k]
====
